---- MODULE Spec2Model ----
(***************************************************************************)
(* Brand-asset lookup server (src/core-mcp-dev/server.py): the two module  *)
(* level caches asset_data / color_data, their loaders, the MCP tool       *)
(* get_brand_assets and the SemanticAssetMatcher it drives.  Two           *)
(* collaborators are modelled beside it: extract_color_families of         *)
(* src/core-mcp-dev/process_colors.py and the search command of            *)
(* src/interfaces/mcp-server/cli_wrapper.py (main and enhanced_search).    *)
(*                                                                         *)
(* Text.  A Python str is modelled as a sequence of tokens (morphemes,     *)
(* blanks and hyphens); "pattern in request_lower" is contiguous           *)
(* sub-sequence containment and len(pattern) is the number of characters   *)
(* of the pattern's tokens.  The tokenisation splits every word at each    *)
(* place where a pattern of the source starts or ends inside it            *)
(* ("fav"+"icon", "brand"+"ing", "fuzz"+"b"+"all", "white"+"paper" ...),   *)
(* so containment on tokens coincides with containment on characters for   *)
(* every request built from Vocabulary.                                    *)
(*                                                                         *)
(* Numbers.  Python floats are modelled as exact fractions: intent scores  *)
(* in fifteenths, product confidence in tenths, the parsed confidence in   *)
(* three-hundredths, asset scores in thousandths.                          *)
(***************************************************************************)
EXTENDS Integers, Sequences, FiniteSets, TLC

VARIABLES
  pc,          \* "startup" (module import), "idle" (waiting), "replied" (a tool call returned);
               \* "extract"/"extracted" and "cli"/"exited", "search"/"returned" for the collaborators
  asset_data,  \* global asset_data: None or the fetched metadata document
  color_data,  \* global color_data: None or the fetched palette document
  request,     \* argument of the last get_brand_assets call
  parsed,      \* result of _parse_request inside the last call (None if not reached)
  response,    \* object returned by the last get_brand_assets call
  propagated,  \* TRUE iff the last call let an exception escape to its caller
  fetches,     \* number of metadata fetch attempts made by the last call
  utility_colors,  \* process_colors: the utility properties given to extract_color_families
  families_out,    \* process_colors: the dict families it returned
  argv,            \* cli_wrapper: sys.argv[1:] of the run
  metadata_file,   \* cli_wrapper: what load_asset_data() obtains in this run
  patterns_file,   \* cli_wrapper: what load_search_patterns() obtains in this run
  stdout,          \* cli_wrapper: the chunks written to standard output, in order
  stderr,          \* cli_wrapper: the chunks written to standard error, in order
  exit_code,       \* cli_wrapper: exit status of the run (None while it has not ended)
  search_call,     \* cli_wrapper: the arguments of the enhanced_search call (None if not made)
  search_result    \* cli_wrapper: what enhanced_search returned (None if it did not return)

\* The state of the server process
server_vars == <<asset_data, color_data, request, parsed, response, propagated, fetches>>

\* The state of the color-family extraction
palette_vars == <<utility_colors, families_out>>

\* The state of the search command
cli_vars == <<argv, metadata_file, patterns_file, stdout, stderr, exit_code,
              search_call, search_result>>

vars == <<pc, server_vars, palette_vars, cli_vars>>

\* Python None
None == "None"

\* ------------------------------------------------------------------------
\* Text helpers
\* ------------------------------------------------------------------------

\* str.lower() on one token (the upper-case tokens of Vocabulary)
LowerToken(t) ==
  CASE t = "RLC" -> "rlc"
    [] t = "Warewulf" -> "warewulf"
    [] OTHER -> t

\* str.lower()
Lower(text) == [i \in 1..Len(text) |-> LowerToken(text[i])]

\* All non-empty contiguous pieces of a string
Substrings(s) ==
  { SubSeq(s, ij[1], ij[2]) : ij \in {x \in (1..Len(s)) \X (1..Len(s)) : x[1] <= x[2]} }

\* "pattern in text" for a non-empty pattern; text is given by Substrings(text)
Contains(text, pattern) == pattern \in text

RECURSIVE CharLen(_)
\* len(pattern), in characters
CharLen(pattern) ==
  IF pattern = <<>> THEN 0 ELSE Len(Head(pattern)) + CharLen(Tail(pattern))

Min(a, b) == IF a <= b THEN a ELSE b

\* any(pattern in text for pattern in patterns)
AnyIn(text, patterns) == \E k \in 1..Len(patterns) : Contains(text, patterns[k])

\* [p for p in patterns if p in text], in list order
MatchedPatterns(text, patterns) == SelectSeq(patterns, LAMBDA p : Contains(text, p))

RECURSIVE SumCharLen(_)
SumCharLen(patterns) ==
  IF patterns = <<>> THEN 0 ELSE CharLen(Head(patterns)) + SumCharLen(Tail(patterns))

\* ------------------------------------------------------------------------
\* Pattern tables of SemanticAssetMatcher.__init__ (dicts keep insertion order)
\* ------------------------------------------------------------------------

\* self.product_patterns (alias substrings per product, in declaration order)
product_patterns ==
  << [name |-> "ciq",
      patterns |-> << <<"ciq">>, <<"company">>, <<"brand">>, <<"main">> >>],
     [name |-> "fuzzball",
      patterns |-> << <<"fuzz", "b", "all">>, <<"fuzz", " ", "b", "all">>, <<"workload">>,
                      <<"hpc">> >>],
     [name |-> "warewulf",
      patterns |-> << <<"warewulf">>, <<"cluster">>, <<"provisioning">> >>],
     [name |-> "apptainer",
      patterns |-> << <<"apptainer">>, <<"container">>, <<"scientific">> >>],
     [name |-> "ascender",
      patterns |-> << <<"ascender">>, <<"automation">>, <<"ansible">> >>],
     [name |-> "bridge",
      patterns |-> << <<"bridge">>, <<"centos">>, <<"migration">> >>],
     [name |-> "support",
      patterns |-> << <<"support">>, <<"ciq", " ", "support">> >>],
     [name |-> "rlc",
      patterns |-> << <<"rlc">>, <<"rocky", " ", "linux", " ", "commercial">>,
                      <<"rocky", " ", "linux">> >>],
     [name |-> "rlc-ai",
      patterns |-> << <<"rlc", "-", "ai">>, <<"rlc", " ", "ai">>,
                      <<"rocky", " ", "linux", " ", "ai">> >>],
     [name |-> "rlc-hardened",
      patterns |-> << <<"rlc", "-", "hardened">>, <<"rlc", " ", "hardened">>,
                      <<"rocky", " ", "linux", " ", "hardened">> >>],
     [name |-> "rlc-lts",
      patterns |-> << <<"rlc", "-", "lts">>, <<"rlc", " ", "lts">>,
                      <<"rocky", " ", "linux", " ", "lts">>,
                      <<"rocky", " ", "linux", " ", "commercial", " ", "lts">>,
                      <<"long", " ", "term", " ", "support">>,
                      <<"long", "-", "term", " ", "support">>, <<"lts">> >>] >>

\* self.background_patterns
background_patterns ==
  << [name |-> "light",
      patterns |-> << <<"light">>, <<"white">>, <<"light", " ", "background">> >>],
     [name |-> "dark",
      patterns |-> << <<"dark">>, <<"black">>, <<"dark", " ", "background">> >>] >>

\* self.layout_patterns
layout_patterns ==
  << [name |-> "icon",
      patterns |-> << <<"symbol">>, <<"icon">>, <<"fav", "icon">>, <<"app", " ", "icon">> >>],
     [name |-> "horizontal",
      patterns |-> << <<"horizontal">>, <<"wide">>, <<"header">>, <<"lockup">> >>],
     [name |-> "vertical",
      patterns |-> << <<"vertical">>, <<"tall">>, <<"stacked">> >>],
     [name |-> "onecolor",
      patterns |-> << <<"1", "-", "color">>, <<"1", " ", "color">>, <<"one", " ", "color">>,
                      <<"one", "color">> >>],
     [name |-> "twocolor",
      patterns |-> << <<"2", "-", "color">>, <<"2", " ", "color">>, <<"two", " ", "color">>,
                      <<"two", "color">> >>],
     [name |-> "green",
      patterns |-> << <<"green">>, <<"accent">> >>] >>

\* self.intent_categories (declaration order is the iteration order of the dict)
intent_categories ==
  << [name |-> "all_assets",
      patterns |-> << <<"everything">>, <<"all", " ", "assets">>, <<"all", " ", "materials">>,
                      <<"complete", " ", "set">>, <<"full", " ", "package">>,
                      <<"everything", " ", "available">> >>],
     [name |-> "documents",
      patterns |-> << <<"docs">>, <<"documentation">>, <<"paper", "s">>, <<"materials">>,
                      <<"content">>, <<"files">>, <<"pdfs">> >>],
     [name |-> "sales_materials",
      patterns |-> << <<"sales">>, <<"brief">>, <<"sheet">>, <<"1", "-", "pager">>,
                      <<"1", " ", "pager">>, <<"one", " ", "pager">>, <<"overview">>,
                      <<"summary">>, <<"sales", " ", "sheet">> >>],
     [name |-> "technical_docs",
      patterns |-> << <<"spec", "s">>, <<"technical">>, <<"data", "sheet">>,
                      <<"data", " ", "sheet">>, <<"white", "paper">>,
                      <<"white", " ", "paper">>, <<"guide">>, <<"manual">> >>],
     [name |-> "visual_assets",
      patterns |-> << <<"logo", "s">>, <<"images">>, <<"graphics">>, <<"brand", "ing">>,
                      <<"visual">>, <<"brand", " ", "assets">> >>],
     [name |-> "case_studies",
      patterns |-> << <<"case", " ", "study">>, <<"success", " ", "story">>,
                      <<"customer", " ", "story">>, <<"case", " ", "studies">> >>],
     [name |-> "colors",
      patterns |-> << <<"color", "s">>, <<"color", " ", "palette">>, <<"colour">>,
                      <<"colour", "s">>, <<"palette">>, <<"design", " ", "tokens">>,
                      <<"brand", " ", "color", "s">> >>],
     [name |-> "color_families",
      patterns |-> << <<"blue", "s">>, <<"red", "s">>, <<"green", "s">>, <<"gray", "s">>,
                      <<"grey", "s">>, <<"orange", "s">>, <<"purple", "s">>,
                      <<"color", " ", "family">>, <<"colour", " ", "family">> >>],
     [name |-> "design_system",
      patterns |-> << <<"design", " ", "system">>, <<"ui", " ", "color", "s">>,
                      <<"interface", " ", "color", "s">>, <<"theme", " ", "color", "s">>,
                      <<"css", " ", "variables">> >>] >>

\* self.color_patterns
color_patterns ==
  << [name |-> "brand_colors",
      patterns |-> << <<"brand">>, <<"primary">>, <<"accent">>, <<"company", " ", "color", "s">> >>],
     [name |-> "semantic_colors",
      patterns |-> << <<"text">>, <<"background">>, <<"border">>, <<"foreground">>,
                      <<"semantic">> >>],
     [name |-> "functional_colors",
      patterns |-> << <<"error">>, <<"warning">>, <<"success">>, <<"danger">>, <<"info">> >>],
     [name |-> "utility_colors",
      patterns |-> << <<"utility">>, <<"blue">>, <<"red">>, <<"green">>, <<"gray">>,
                      <<"grey">>, <<"orange">>, <<"purple">>, <<"pink">>, <<"indigo">>,
                      <<"yellow">> >>],
     [name |-> "theme_colors",
      patterns |-> << <<"dark", " ", "mode">>, <<"light", " ", "mode">>, <<"theme">>,
                      <<"dark", " ", "theme">>, <<"light", " ", "theme">> >>] >>

\* self.color_usage_patterns
color_usage_patterns ==
  << [name |-> "ui_elements",
      patterns |-> << <<"button">>, <<"input">>, <<"form">>, <<"card">>, <<"modal">>,
                      <<"dropdown">> >>],
     [name |-> "text_colors",
      patterns |-> << <<"heading">>, <<"body", " ", "text">>, <<"caption">>, <<"link">>,
                      <<"disabled">> >>],
     [name |-> "state_colors",
      patterns |-> << <<"hover">>, <<"active">>, <<"focus">>, <<"disabled">>, <<"selected">> >>],
     [name |-> "feedback_colors",
      patterns |-> << <<"success">>, <<"error">>, <<"warning">>, <<"info">>, <<"danger">> >>] >>

\* product_context_patterns of _parse_request
product_context_patterns ==
  << <<"product">>, <<"product", "s">>, <<"portfolio">>, <<"offerings">>, <<"solution", "s">>,
     <<"brand", "s">>, <<"brand", " ", "logo", "s">>, <<"all", " ", "logo", "s">>,
     <<"available", " ", "logo", "s">> >>

\* company_only_patterns of _parse_request
company_only_patterns ==
  << <<"ciq", " ", "company", " ", "logo">>, <<"main", " ", "ciq", " ", "logo">>,
     <<"ciq", " ", "brand", " ", "logo">>, <<"corporate", " ", "logo">>,
     <<"company", " ", "brand">> >>

\* Phrases a request is built from: product aliases, intent words, background and
\* layout words, color words, and words that match nothing
Vocabulary ==
  << <<"Warewulf">>, <<"ciq">>, <<"ciq", " ", "product", "s">>, <<"RLC">>, <<"rlc">>,
     <<"rlc", "-", "lts">>, <<"rlc", "-", "lts", " ", "solution", " ", "brief">>,
     <<"rlc", "-", "ai">>, <<"rlc", " ", "docs">>, <<"rocky", " ", "linux">>,
     <<"rocky", " ", "linux", " ", "commercial">>, <<"lts">>,
     <<"fuzz", "b", "all">>, <<"logo">>, <<"logo", "s">>,
     <<"docs">>, <<"documentation">>, <<"solution", " ", "brief">>,
     <<"sales", " ", "sheet">>, <<"guide">>, <<"white", "paper">>, <<"case", " ", "study">>,
     <<"everything">>, <<"product", "s">>, <<"ciq", " ", "company", " ", "logo">>,
     <<"color", "s">>, <<"brand", " ", "color", "s">>, <<"blue", "s">>,
     <<"design", " ", "system">>, <<"button">>, <<"error">>, <<"dark">>,
     <<"light", " ", "background">>, <<"dark", " ", "horizontal", " ", "logo", "s">>,
     <<"horizontal">>, <<"icon">>, <<"green">>, <<"xyz123">> >>

\* ------------------------------------------------------------------------
\* Requests
\* ------------------------------------------------------------------------

\* Largest number of Vocabulary phrases in one request
MaxPhrases == 2

RECURSIVE IncSeqs(_)
\* strictly increasing index sequences of length <= k over Vocabulary
IncSeqs(k) ==
  IF k = 0 THEN {<<>>}
  ELSE LET shorter == IncSeqs(k - 1)
           longest == {s \in shorter : Len(s) = k - 1}
       IN shorter \cup
          UNION { { Append(s, i) :
                      i \in (IF s = <<>> THEN 1 ELSE s[Len(s)] + 1)..Len(Vocabulary) } :
                  s \in longest }

RECURSIVE JoinPhrases(_)
\* " ".join(Vocabulary[i] for i in q)
JoinPhrases(q) ==
  IF q = <<>> THEN <<>>
  ELSE IF Len(q) = 1 THEN Vocabulary[q[1]]
  ELSE Vocabulary[q[1]] \o <<" ">> \o JoinPhrases(Tail(q))

\* The request strings the matcher is exercised with
Requests == { JoinPhrases(q) : q \in IncSeqs(MaxPhrases) }

\* The request strings of the tool calls in the server process: "" and one phrase
ToolRequests == { JoinPhrases(q) : q \in {<<>>} \cup { <<i>> : i \in 1..Len(Vocabulary) } }

\* ------------------------------------------------------------------------
\* SemanticAssetMatcher._parse_request
\* ------------------------------------------------------------------------

\* Denominator of an intent score: score += len(pattern) / 15.0
IntentUnit == 15
\* Denominator of a product confidence: len(pattern) / 10.0
ProductUnit == 10
\* Denominator of the parsed confidence (30*tenths + 10*fifteenths, times 13/10)
ConfidenceUnit == 300

\* the accumulated score of one category without the final min(score, 1.0)
IntentScoreUncapped(matched_patterns) == SumCharLen(matched_patterns)

\* intent_scores[intent_type]['score'], in fifteenths: each matched pattern adds
\* len(pattern) / 15.0, the sum is capped at 1.0
IntentScore(matched_patterns) == Min(SumCharLen(matched_patterns), IntentUnit)

\* one entry of intent_scores
IntentEntry(name, matched_patterns) ==
  [name |-> name, score |-> IntentScore(matched_patterns), patterns |-> matched_patterns]

\* intent_scores: one entry per category, in declaration order
IntentScores(text) ==
  [k \in 1..Len(intent_categories) |->
     IntentEntry(intent_categories[k].name,
                 MatchedPatterns(text, intent_categories[k].patterns))]

\* intent_scores.get(name, {}).get('score', 0)
ScoreOf(scores, name) ==
  IF \E k \in 1..Len(scores) : scores[k].name = name
  THEN scores[CHOOSE k \in 1..Len(scores) : scores[k].name = name].score
  ELSE 0

\* the last entry with the largest score
PrimaryIntentLastWins(scores) ==
  scores[CHOOSE k \in 1..Len(scores) :
            /\ \A j \in 1..Len(scores) : scores[j].score <= scores[k].score
            /\ \A j \in (k + 1)..Len(scores) : scores[j].score < scores[k].score]

\* max(intent_scores.items(), key=score): the first entry with the largest score
PrimaryIntent(scores) ==
  scores[CHOOSE k \in 1..Len(scores) :
            /\ \A j \in 1..Len(scores) : scores[j].score <= scores[k].score
            /\ \A j \in 1..(k - 1) : scores[j].score < scores[k].score]

\* the tuple (prod, confidence, len(pattern), pattern) appended for a matching alias;
\* confidence = min(len(pattern) / 10.0, 0.6), in tenths
AliasMatch(prod, pattern) ==
  [prod |-> prod, confidence |-> Min(CharLen(pattern), 6),
   length |-> CharLen(pattern), pattern |-> pattern]

RECURSIVE AliasTable(_)
\* the (product, alias) pairs in the order the first pass visits them
AliasTable(k) ==
  IF k > Len(product_patterns) THEN <<>>
  ELSE [j \in 1..Len(product_patterns[k].patterns) |->
          AliasMatch(product_patterns[k].name, product_patterns[k].patterns[j])]
       \o AliasTable(k + 1)

\* every alias of every product, in visiting order
AllAliases == AliasTable(1)

\* first pass of _parse_request: all_matches before the sort
FirstPass(text) == SelectSeq(AllAliases, LAMBDA m : Contains(text, m.pattern))

\* sort key (x[2], x[1]) compared as tuples
KeyLess(a, b) ==
  \/ a.length < b.length
  \/ (a.length = b.length /\ a.confidence < b.confidence)

\* all_matches left in the order of the first pass
SortMatchesKeepOrder(s) == s

RECURSIVE SortMatches(_)
\* list.sort(key=..., reverse=True): descending, equal keys keep their order
SortMatches(s) ==
  IF s = <<>> THEN <<>>
  ELSE LET i == CHOOSE k \in 1..Len(s) :
                   /\ \A j \in 1..Len(s) : ~KeyLess(s[k], s[j])
                   /\ \A j \in 1..(k - 1) : KeyLess(s[j], s[k])
       IN <<s[i]>> \o SortMatches(SubSeq(s, 1, i - 1) \o SubSeq(s, i + 1, Len(s)))

\* all_matches after the sort
AllMatches(text) == SortMatches(FirstPass(text))

\* is_document_query
IsDocumentQuery(scores) ==
  ScoreOf(scores, "documents") > 0 \/ ScoreOf(scores, "sales_materials") > 0

\* product resolution without the document branches: the head of all_matches
ResolveProductFirstMatch(text, scores) ==
  LET all_matches == AllMatches(text)
  IN IF all_matches = <<>> THEN [product |-> None, confidence |-> 0]
     ELSE [product |-> all_matches[1].prod, confidence |-> all_matches[1].confidence]

\* product resolution that prefers the LTS variant whatever the intent scores are
ResolveProductAlwaysLts(text, scores) ==
  LET all_matches == AllMatches(text)
  IN IF all_matches = <<>> THEN [product |-> None, confidence |-> 0]
     ELSE IF all_matches[1].prod = "rlc" /\ Contains(text, <<"rlc">>)
     THEN [product |-> "rlc-lts", confidence |-> all_matches[1].confidence]
     ELSE [product |-> all_matches[1].prod, confidence |-> all_matches[1].confidence]

\* The "smart product resolution" block: (product, product_confidence in tenths)
ResolveProduct(text, scores) ==
  LET all_matches == AllMatches(text)
      has_rlc == \E k \in 1..Len(all_matches) : all_matches[k].prod = "rlc"
      has_rlc_lts == \E k \in 1..Len(all_matches) : all_matches[k].prod = "rlc-lts"
      first_lts == CHOOSE k \in 1..Len(all_matches) :
                      /\ all_matches[k].prod = "rlc-lts"
                      /\ \A j \in 1..(k - 1) : all_matches[j].prod # "rlc-lts"
  IN IF all_matches = <<>> THEN [product |-> None, confidence |-> 0]
     ELSE IF IsDocumentQuery(scores) /\ Len(all_matches) = 1 /\ all_matches[1].prod = "rlc"
     THEN IF Contains(text, <<"rlc">>) /\ ~Contains(text, <<"rlc", "-", "lts">>)
          THEN [product |-> "rlc-lts", confidence |-> all_matches[1].confidence]
          ELSE [product |-> all_matches[1].prod, confidence |-> all_matches[1].confidence]
     ELSE IF IsDocumentQuery(scores) /\ has_rlc /\ has_rlc_lts
     THEN [product |-> all_matches[first_lts].prod,
           confidence |-> all_matches[first_lts].confidence]
     ELSE [product |-> all_matches[1].prod, confidence |-> all_matches[1].confidence]

RECURSIVE LastMatching(_, _, _)
\* for name, patterns in table.items(): for p in patterns: if p in text: value = name; break
\* (the break leaves only the inner loop, so a later matching entry overwrites an earlier one)
LastMatching(text, table, value) ==
  IF table = <<>> THEN value
  ELSE LastMatching(text, Tail(table),
                    IF AnyIn(text, Head(table).patterns) THEN Head(table).name ELSE value)

RECURSIVE FirstFamily(_, _)
\* for family_name in families.keys(): if family_name in text: ...; break
FirstFamily(text, families) ==
  IF families = <<>> THEN None
  ELSE IF Contains(text, Head(families).name) THEN Head(families).name
  ELSE FirstFamily(text, Tail(families))

\* color_data.get('families', {}) of a truthy palette document
FamiliesOf(palette) == IF "families" \in palette.keys THEN palette.families ELSE <<>>

\* _detect_color_context (palette is the global color_data; families are scanned
\* only when it is truthy)
DetectColorContext(text, palette) ==
  LET color_type == LastMatching(text, color_patterns, None)
      family == IF palette.keys = {} THEN None ELSE FirstFamily(text, FamiliesOf(palette))
  IN [has_color_intent |-> (color_type # None \/ family # None),
      color_type |-> color_type,
      color_family |-> family,
      usage_context |-> LastMatching(text, color_usage_patterns, None)]

\* total_confidence, in three-hundredths: product_confidence + 0.5 * score,
\* times 1.3 (capped) when a product was found and the primary score exceeds 0.3
TotalConfidence(product, product_confidence, primary_score) ==
  LET total == 30 * product_confidence + 10 * primary_score
      boosted == IF product # None /\ 10 * primary_score > 3 * IntentUnit
                 THEN Min((13 * total) \div 10, ConfidenceUnit)
                 ELSE total
  IN Min(boosted, ConfidenceUnit)

\* _parse_request(request) with the module global color_data = palette
ParseRequest(req, palette) ==
  LET request_lower == Substrings(Lower(req))
      contains_ciq == AnyIn(request_lower, << <<"ciq">>, <<"company">> >>)
      contains_product_context == AnyIn(request_lower, product_context_patterns)
      is_clearly_company_only == AnyIn(request_lower, company_only_patterns)
      is_ciq_product_query ==
        contains_ciq /\ contains_product_context /\ ~is_clearly_company_only
      scores == IntentScores(request_lower)
      resolved == ResolveProduct(request_lower, scores)
      primary == PrimaryIntent(scores)
  IN [product |-> resolved.product,
      background |-> LastMatching(request_lower, background_patterns, None),
      layout |-> LastMatching(request_lower, layout_patterns, None),
      primary_intent |-> primary.name,
      intent_scores |-> scores,
      confidence |-> TotalConfidence(resolved.product, resolved.confidence, primary.score),
      needs_ciq_disambiguation |-> (is_ciq_product_query /\ resolved.product = "ciq"),
      color_context |-> DetectColorContext(request_lower, palette)]

\* ------------------------------------------------------------------------
\* Metadata and palette documents (what requests.get(...).json() can return)
\* ------------------------------------------------------------------------

\* A dict key that is not present
Absent == "<absent>"

\* A logo entry of the inventory: {type, layout, color, background, ...};
\* doc_type is read with .get('doc_type', '') only
Logo(key, layout, background, color) ==
  [key |-> key, type |-> "logo", layout |-> layout, background |-> background,
   color |-> color, doc_type |-> <<>>]

\* A document entry of the inventory: {type, doc_type, ext, ...}, no logo fields
Document(key, doc_type) ==
  [key |-> key, type |-> "document", layout |-> Absent, background |-> Absent,
   color |-> Absent, doc_type |-> doc_type]

\* An inventory with logos of five products and documents of three
FullInventory ==
  [keys |-> {"assets", "rules", "index"},
   assets |->
     << [product |-> "ciq", items |->
           << Logo("ciq-1", "onecolor", "light", "black"),
              Logo("ciq-2", "onecolor", "dark", "white"),
              Logo("ciq-3", "twocolor", "light", "black"),
              Document("ciq-4", <<"overview">>) >>],
        [product |-> "warewulf", items |->
           << Logo("ww-1", "horizontal", "dark", "white"),
              Logo("ww-2", "horizontal", "light", "black"),
              Logo("ww-3", "icon", "dark", "white"),
              Logo("ww-4", "icon", "light", "black"),
              Logo("ww-5", "vertical", "dark", "white") >>],
        [product |-> "rlc", items |->
           << Logo("rlc-1", "horizontal", "light", "black"),
              Logo("rlc-2", "icon", "dark", "white") >>],
        [product |-> "rlc-lts", items |->
           << Logo("lts-1", "horizontal", "light", "black"),
              Document("lts-2", <<"solution", " ", "brief">>),
              Document("lts-3", <<"user", " ", "guide">>) >>],
        [product |-> "fuzzball", items |->
           << Document("fz-1", <<"data", "sheet">>),
              Logo("fz-2", "horizontal", "light", "black"),
              Logo("fz-3", "horizontal", "dark", "white") >>] >>,
   products |-> <<"ciq", "warewulf", "rlc", "rlc-lts", "fuzzball">>]

\* An inventory without any document
LogoInventory ==
  [keys |-> {"assets", "rules", "index"},
   assets |->
     << [product |-> "warewulf", items |->
           << Logo("ww-1", "horizontal", "light", "black"),
              Logo("ww-2", "icon", "light", "black") >>],
        [product |-> "ciq", items |->
           << Logo("ciq-1", "onecolor", "light", "black"),
              Logo("ciq-2", "onecolor", "dark", "white"),
              Logo("ciq-3", "twocolor", "light", "black"),
              Logo("ciq-4", "twocolor", "dark", "white"),
              Logo("ciq-5", "green", "light", "green") >>] >>,
   products |-> <<"warewulf", "ciq">>]

\* A well-formed inventory with no product at all
EmptyInventory ==
  [keys |-> {"assets", "rules", "index"}, assets |-> <<>>, products |-> <<>>]

\* A metadata document without the 'index' key
NoIndexDocument ==
  [keys |-> {"assets", "rules"}, assets |-> LogoInventory.assets, products |-> <<>>]

\* A metadata document without the 'assets' key
NoAssetsDocument ==
  [keys |-> {"rules", "index"}, assets |-> <<>>, products |-> <<"warewulf", "ciq">>]

\* The JSON object {}
EmptyDocument == [keys |-> {}, assets |-> <<>>, products |-> <<>>]

ValidInventories == {FullInventory, LogoInventory, EmptyInventory}

\* Everything a successful HTTP fetch of METADATA_URL can deliver
AssetDocuments ==
  ValidInventories \cup {NoIndexDocument, NoAssetsDocument, EmptyDocument}

\* A palette with two utility families
FullPalette ==
  [keys |-> {"summary", "colors", "categories", "families"},
   families |-> << [name |-> <<"blue">>, shades |-> <<"50", "500", "900">>],
                   [name |-> <<"green">>, shades |-> <<"100", "500">>] >>]

\* A palette document without the 'families' key
NoFamiliesPalette ==
  [keys |-> {"summary", "colors", "categories"}, families |-> <<>>]

\* A palette document without the 'summary' key
NoSummaryPalette ==
  [keys |-> {"colors", "categories", "families"},
   families |-> << [name |-> <<"blue">>, shades |-> <<"50", "500", "900">>] >>]

\* Everything a successful HTTP fetch of COLOR_PALETTE_URL can deliver
PaletteDocuments == {FullPalette, NoFamiliesPalette, NoSummaryPalette}

\* The fetch raised (timeout, HTTP error, invalid JSON)
FetchFailed == [failed |-> TRUE]

\* Python None held by asset_data or color_data
NoData == [keys |-> {}, null |-> TRUE]

\* a test that takes every cache for empty
FalsyAlways(doc) == TRUE

\* "not x" for a cache that holds None or a dict
Falsy(doc) == doc.keys = {}

\* ------------------------------------------------------------------------
\* load_asset_data / load_color_data
\* ------------------------------------------------------------------------

\* load_asset_data: the global is assigned as soon as the body is decoded, the
\* structure check comes after; result = (return value, new asset_data)
LoadAssetData(current, outcome) ==
  IF outcome = FetchFailed THEN [ok |-> FALSE, data |-> current]
  ELSE [ok |-> {"assets", "rules", "index"} \subseteq outcome.keys, data |-> outcome]

\* load_color_data: same order of assignment and checks; the summary is read
\* after the structure check
LoadColorData(current, outcome) ==
  IF outcome = FetchFailed THEN [ok |-> FALSE, data |-> current]
  ELSE [ok |-> {"colors", "categories", "families", "summary"} \subseteq outcome.keys,
        data |-> outcome]

\* ------------------------------------------------------------------------
\* Scoring and ranking: _legacy_score_asset, _score_asset_semantic, _match_assets
\* ------------------------------------------------------------------------

\* Denominator of an asset score
ScoreUnit == 1000

\* any(term in asset.get('doc_type', '').lower() for term in ['brief', 'overview', 'summary', 'sales'])
IsSalesDocType(doc_type) ==
  AnyIn(Substrings(Lower(doc_type)), << <<"brief">>, <<"overview">>, <<"summary">>, <<"sales">> >>)

\* any(term in asset.get('doc_type', '').lower() for term in ['spec', 'technical', 'guide', 'manual'])
IsTechnicalDocType(doc_type) ==
  AnyIn(Substrings(Lower(doc_type)), << <<"spec">>, <<"technical">>, <<"guide">>, <<"manual">> >>)

\* _legacy_score_asset, in thousandths
LegacyScoreAsset(asset, p) ==
  IF asset.type = "document" THEN 600
  ELSE Min(300
           + (IF p.background # None /\ asset.background = p.background THEN 400 ELSE 0)
           + (IF p.layout # None /\ asset.layout = p.layout THEN 300 ELSE 0),
           ScoreUnit)

\* intent branches in which visual_assets hands every asset to the legacy scorer
BaseScoreAllLegacy(asset, p) ==
  CASE p.primary_intent = "all_assets" -> 800
    [] p.primary_intent = "documents" ->
         IF asset.type = "document" THEN 900 ELSE 200
    [] p.primary_intent = "sales_materials" ->
         IF asset.type = "document"
         THEN (IF IsSalesDocType(asset.doc_type) THEN 1000 ELSE 500)
         ELSE 300
    [] OTHER -> LegacyScoreAsset(asset, p)

\* the score chosen by the intent branches of _score_asset_semantic
BaseScore(asset, p) ==
  CASE p.primary_intent = "all_assets" -> 800
    [] p.primary_intent = "documents" ->
         IF asset.type = "document" THEN 900 ELSE 200
    [] p.primary_intent = "sales_materials" ->
         IF asset.type = "document"
         THEN (IF IsSalesDocType(asset.doc_type) THEN 1000 ELSE 500)
         ELSE 300
    [] p.primary_intent = "visual_assets" ->
         IF asset.type # "document" THEN LegacyScoreAsset(asset, p) ELSE 100
    [] OTHER ->
         IF asset.type = "document" THEN 600 ELSE LegacyScoreAsset(asset, p)

\* high_intent_count: categories whose score exceeds 0.3
HighIntentCount(scores) ==
  Cardinality({k \in 1..Len(scores) : 10 * scores[k].score > 3 * IntentUnit})

\* a scorer whose cross-intent boost is not capped
ScoreAssetSemanticUncapped(asset, p) ==
  IF HighIntentCount(p.intent_scores) > 1
  THEN (11 * BaseScore(asset, p)) \div 10
  ELSE BaseScore(asset, p)

\* _score_asset_semantic, in thousandths (the reason string is not modelled)
ScoreAssetSemantic(asset, p) ==
  IF HighIntentCount(p.intent_scores) > 1
  THEN Min((11 * BaseScore(asset, p)) \div 10, ScoreUnit)
  ELSE BaseScore(asset, p)

\* the index of a product in asset_data['assets'], 0 when it is not a key
ProductIndex(doc, product) ==
  IF \E k \in 1..Len(doc.assets) : doc.assets[k].product = product
  THEN CHOOSE k \in 1..Len(doc.assets) : doc.assets[k].product = product
  ELSE 0

\* asset_data['assets'][product] as the ordered list of its values
ProductAssets(doc, product) ==
  IF ProductIndex(doc, product) = 0 THEN <<>>
  ELSE doc.assets[ProductIndex(doc, product)].items

\* the (score, asset) pairs appended by the loop of _match_assets
ScoredMatches(assets, p) ==
  SelectSeq([k \in 1..Len(assets) |->
               [score |-> ScoreAssetSemantic(assets[k], p), asset |-> assets[k]]],
            LAMBDA m : m.score > 0)

RECURSIVE SortedTiesReversed(_)
\* a descending sort that puts the later of two equal scores first
SortedTiesReversed(s) ==
  IF s = <<>> THEN <<>>
  ELSE LET i == CHOOSE k \in 1..Len(s) :
                   /\ \A j \in 1..Len(s) : s[j].score <= s[k].score
                   /\ \A j \in (k + 1)..Len(s) : s[j].score < s[k].score
       IN <<s[i]>> \o SortedTiesReversed(SubSeq(s, 1, i - 1) \o SubSeq(s, i + 1, Len(s)))

RECURSIVE SortedByScore(_)
\* sorted(matches, key=score, reverse=True): descending, equal scores keep their order
SortedByScore(s) ==
  IF s = <<>> THEN <<>>
  ELSE LET i == CHOOSE k \in 1..Len(s) :
                   /\ \A j \in 1..Len(s) : s[j].score <= s[k].score
                   /\ \A j \in 1..(k - 1) : s[j].score < s[k].score
       IN <<s[i]>> \o SortedByScore(SubSeq(s, 1, i - 1) \o SubSeq(s, i + 1, Len(s)))

\* _match_assets on a document that has the 'assets' key
MatchAssets(doc, product, p) ==
  SortedByScore(ScoredMatches(ProductAssets(doc, product), p))

\* the assets of a list that are (is_doc) or are not documents, in order
SelectType(assets, is_doc) ==
  SelectSeq(assets, LAMBDA a : (a.type = "document") = is_doc)

\* classification['logos'] and classification['documents'] of _classify_assets_by_intent
Logos(assets) == SelectType(assets, FALSE)
Documents(assets) == SelectType(assets, TRUE)

\* s[:n]
Take(s, n) == SubSeq(s, 1, Min(n, Len(s)))

\* the keys of a list of assets
KeysOf(assets) == [k \in 1..Len(assets) |-> assets[k].key]

\* ------------------------------------------------------------------------
\* Response objects
\* ------------------------------------------------------------------------

\* A returned dict: shape names the return statement that built it, keys are
\* the dict's keys; the other fields hold the values the properties refer to
Response(shape, keys, confidence) ==
  [shape |-> shape, keys |-> keys, confidence |-> confidence, error |-> None,
   product |-> None, assets |-> <<>>, count |-> 0,
   total_count |-> 0, products_with_assets |-> 0, by_product |-> <<>>]

\* A function result: a returned dict or a raised exception
Return(r) == [raised |-> FALSE, value |-> r]
Raise == [raised |-> TRUE, value |-> Response("exception", {}, Absent)]

\* asset['layout'], asset['background'] do not raise KeyError
HasLayoutAndBackground(asset) == asset.layout # Absent /\ asset.background # Absent

\* asset['layout'], asset['color'], asset['background'] do not raise KeyError
HasLogoFields(asset) == HasLayoutAndBackground(asset) /\ asset.color # Absent

\* _get_confidence_level
GetConfidenceLevel(confidence) ==
  IF 10 * confidence >= 8 * ConfidenceUnit THEN "high"
  ELSE IF 10 * confidence >= 4 * ConfidenceUnit THEN "medium"
  ELSE "low"

\* a help response that carries no confidence
GenerateProductHelpBare(doc) ==
  IF "index" \notin doc.keys THEN Raise
  ELSE Return([Response("product_help", {"help", "message", "examples"}, Absent)
                 EXCEPT !.assets = doc.products])

\* _generate_product_help
GenerateProductHelp(doc) ==
  IF "index" \notin doc.keys THEN Raise
  ELSE Return([Response("product_help", {"help", "message", "examples", "confidence"}, "none")
                 EXCEPT !.assets = doc.products])

\* _generate_ciq_disambiguation
GenerateCiqDisambiguation(doc) ==
  IF "index" \notin doc.keys THEN Raise
  ELSE Return(Response("ciq_disambiguation",
                       {"message", "question", "options", "confidence", "help"},
                       "clarifying"))

\* _format_comprehensive_response
FormatComprehensiveResponse(matched, p) ==
  Return([Response("comprehensive",
                   {"message", "confidence", "product", "summary"}
                     \cup (IF Logos(matched) # <<>> THEN {"logos"} ELSE {})
                     \cup (IF Documents(matched) # <<>> THEN {"documents"} ELSE {}),
                   "high")
            EXCEPT !.product = p.product,
                   !.assets = KeysOf(matched),
                   !.count = Len(matched)])

\* a document response that lists at most one document
FormatDocumentFocusedFirstOnly(matched, p) ==
  Return([Response("documents", {"message", "documents", "confidence"}, "high")
            EXCEPT !.product = p.product,
                   !.assets = KeysOf(Take(Documents(matched), 1)),
                   !.count = Len(Take(Documents(matched), 1))])

\* _format_document_focused_response
FormatDocumentFocusedResponse(matched, p) ==
  IF Documents(matched) = <<>>
  THEN Return([Response("no_documents",
                        {"message", "logos", "suggestion", "confidence"}, "medium")
                 EXCEPT !.product = p.product,
                        !.assets = KeysOf(Take(Logos(matched), 3)),
                        !.count = Len(Logos(matched))])
  ELSE Return([Response("documents",
                        {"message", "documents", "confidence"}
                          \cup (IF Logos(matched) # <<>> THEN {"also_available"} ELSE {}),
                        "high")
                 EXCEPT !.product = p.product,
                        !.assets = KeysOf(Documents(matched)),
                        !.count = Len(Documents(matched))])

\* [m for m in matches if m[0] >= bound]
SelectMatches(matches, bound) == SelectSeq(matches, LAMBDA m : m.score >= bound)

\* perfect_candidates: the exact matches whose background and layout both equal the query's
SelectBoth(matches, p) ==
  SelectSeq(matches, LAMBDA m : m.asset.background = p.background /\ m.asset.layout = p.layout)

\* the assets of a list of matches
AssetsOf(matches) == [k \in 1..Len(matches) |-> matches[k].asset]

\* a response that shows one asset; building it reads layout, color and background
SingleAssetResponse(shape, match) ==
  IF ~HasLogoFields(match.asset) THEN Raise
  ELSE Return([Response(shape, {"message", "asset", "confidence", "reason"}, "high")
                 EXCEPT !.assets = <<match.asset.key>>, !.count = 1])

\* a response that lists assets; building it reads layout and background of each
AssetListResponse(shape, shown, confidence) ==
  IF \E k \in 1..Len(shown) : ~HasLayoutAndBackground(shown[k].asset) THEN Raise
  ELSE Return([Response(shape, {"message", "assets", "confidence", "suggestion"}, confidence)
                 EXCEPT !.assets = KeysOf(AssetsOf(shown)), !.count = Len(shown)])

RECURSIVE LayoutGroups(_, _)
\* layout_groups of _generate_guided_response: layouts in order of first appearance
LayoutGroups(assets, seen) ==
  IF assets = <<>> THEN seen
  ELSE LayoutGroups(Tail(assets),
                    IF \E k \in 1..Len(seen) : seen[k] = Head(assets).layout
                    THEN seen ELSE Append(seen, Head(assets).layout))

\* layout_groups[layout]
SelectLayout(assets, layout) == SelectSeq(assets, LAMBDA a : a.layout = layout)

\* the example of one layout group: the first asset for light backgrounds, else the first
GroupExample(group) ==
  IF \E k \in 1..Len(group) : group[k].background = "light"
  THEN group[CHOOSE k \in 1..Len(group) :
                /\ group[k].background = "light"
                /\ \A j \in 1..(k - 1) : group[j].background # "light"]
  ELSE group[1]

\* _generate_guided_response: grouping reads asset['layout'] of every asset of the
\* product, the example search reads asset['background'], the option reads
\* example['color']
GenerateGuidedResponse(doc, product, matches) ==
  IF ProductIndex(doc, product) = 0 THEN GenerateProductHelp(doc)
  ELSE LET all == ProductAssets(doc, product)
           layouts == LayoutGroups(all, <<>>)
           examples == [k \in 1..Len(layouts) |-> GroupExample(SelectLayout(all, layouts[k]))]
       IN IF \/ \E k \in 1..Len(all) : ~HasLayoutAndBackground(all[k])
             \/ \E k \in 1..Len(examples) : examples[k].color = Absent
          THEN Raise
          ELSE Return([Response("guided",
                                {"message", "product", "options", "confidence",
                                 "background_question", "background_options", "help"},
                                "low")
                         EXCEPT !.product = product,
                                !.assets = KeysOf(examples),
                                !.count = Len(matches)])

\* _format_legacy_enhanced_response
FormatLegacyEnhancedResponse(doc, matches, p) ==
  LET level == GetConfidenceLevel(p.confidence)
      perfect_matches == SelectMatches(matches, ScoreUnit + 1)
      exact_matches == SelectMatches(matches, ScoreUnit)
      perfect_candidates ==
        IF p.background # None /\ p.layout # None THEN SelectBoth(exact_matches, p) ELSE <<>>
      matches_to_show ==
        IF p.background # None /\ Len(exact_matches) > 0 THEN exact_matches ELSE matches
  IN IF level \in {"low", "medium"} /\ p.product # None
        /\ p.background = None /\ p.layout = None
     THEN Return([Response("clarifying_background",
                           {"message", "question", "options", "confidence", "help"},
                           "clarifying")
                    EXCEPT !.product = p.product])
     ELSE IF level = "high" /\ Len(perfect_matches) = 1
     THEN SingleAssetResponse("perfect_single", perfect_matches[1])
     ELSE IF level = "high" /\ Len(perfect_matches) > 1
     THEN AssetListResponse("perfect_list", perfect_matches, "high")
     ELSE IF level = "high" /\ Len(exact_matches) = 1
     THEN SingleAssetResponse("exact_single", exact_matches[1])
     ELSE IF level = "high" /\ Len(exact_matches) > 1
     THEN IF Len(perfect_candidates) = 1
          THEN SingleAssetResponse("exact_narrowed", perfect_candidates[1])
          ELSE AssetListResponse("exact_list", Take(exact_matches, 3), "high")
     ELSE IF \/ (level \in {"high", "medium"} /\ Len(matches) <= 4)
             \/ (level = "medium" /\ p.background # None /\ Len(exact_matches) > 0)
     THEN AssetListResponse("options_list", Take(matches_to_show, 3), level)
     ELSE GenerateGuidedResponse(doc, p.product, matches)

\* _format_response without the test of needs_ciq_disambiguation
FormatResponseUnflagged(doc, matches, p) ==
  IF matches = <<>>
  THEN Return([Response("none_found", {"message", "confidence"}, "none")
                 EXCEPT !.product = p.product])
  ELSE IF p.primary_intent = "all_assets"
  THEN FormatComprehensiveResponse(AssetsOf(matches), p)
  ELSE IF p.primary_intent \in {"documents", "sales_materials"}
  THEN FormatDocumentFocusedResponse(AssetsOf(matches), p)
  ELSE FormatLegacyEnhancedResponse(doc, matches, p)

\* _format_response
FormatResponse(doc, matches, p) ==
  IF matches = <<>>
  THEN Return([Response("none_found", {"message", "confidence"}, "none")
                 EXCEPT !.product = p.product])
  ELSE IF p.needs_ciq_disambiguation THEN GenerateCiqDisambiguation(doc)
  ELSE IF p.primary_intent = "all_assets"
  THEN FormatComprehensiveResponse(AssetsOf(matches), p)
  ELSE IF p.primary_intent \in {"documents", "sales_materials"}
  THEN FormatDocumentFocusedResponse(AssetsOf(matches), p)
  ELSE FormatLegacyEnhancedResponse(doc, matches, p)

\* ------------------------------------------------------------------------
\* Global (cross-product) queries
\* ------------------------------------------------------------------------

\* should_include of _handle_global_query
ShouldInclude(intent, asset) ==
  CASE intent = "all_assets" -> TRUE
    [] intent = "documents" -> asset.type = "document"
    [] intent = "sales_materials" ->
         asset.type = "document" /\ IsSalesDocType(asset.doc_type)
    [] intent = "technical_docs" ->
         asset.type = "document" /\ IsTechnicalDocType(asset.doc_type)
    [] OTHER -> FALSE

\* the copies of one product's assets that pass the filter, tagged with the product
TagAssets(intent, product, items) ==
  LET included == SelectSeq(items, LAMBDA a : ShouldInclude(intent, a))
  IN [k \in 1..Len(included) |-> [product |-> product, key |-> included[k].key]]

RECURSIVE AllMatchingAssets(_, _)
\* all_matching_assets: the scan over asset_data['assets'].items()
AllMatchingAssets(intent, entries) ==
  IF entries = <<>> THEN <<>>
  ELSE TagAssets(intent, Head(entries).product, Head(entries).items)
       \o AllMatchingAssets(intent, Tail(entries))

RECURSIVE GroupPerAsset(_, _)
\* a grouping that opens a new entry for every asset
GroupPerAsset(tagged, groups) ==
  IF tagged = <<>> THEN groups
  ELSE GroupPerAsset(Tail(tagged),
         Append(groups, [product |-> Head(tagged).product, assets |-> <<Head(tagged).key>>]))

RECURSIVE GroupByProduct(_, _)
\* by_product of _format_global_response: product -> its assets, in order of first appearance
GroupByProduct(tagged, groups) ==
  IF tagged = <<>> THEN groups
  ELSE LET t == Head(tagged)
           known == \E k \in 1..Len(groups) : groups[k].product = t.product
           at == CHOOSE k \in 1..Len(groups) : groups[k].product = t.product
       IN GroupByProduct(Tail(tagged),
            IF known
            THEN [groups EXCEPT ![at].assets = Append(@, t.key)]
            ELSE Append(groups, [product |-> t.product, assets |-> <<t.key>>]))

\* str.upper() of a product name
Upper(name) ==
  CASE name = "ciq" -> "CIQ"
    [] name = "warewulf" -> "WAREWULF"
    [] name = "fuzzball" -> "FUZZBALL"
    [] name = "rlc" -> "RLC"
    [] name = "rlc-lts" -> "RLC-LTS"
    [] OTHER -> name

\* position of an upper-cased product name in lexicographic string order
NameRank(upper) ==
  CASE upper = "CIQ" -> 1
    [] upper = "FUZZBALL" -> 2
    [] upper = "RLC" -> 3
    [] upper = "RLC-LTS" -> 4
    [] upper = "WAREWULF" -> 5
    [] OTHER -> 6

RECURSIVE SortedByName(_)
\* sorted(product_results, key=lambda x: x['product'])
SortedByName(s) ==
  IF s = <<>> THEN <<>>
  ELSE LET i == CHOOSE k \in 1..Len(s) :
                   /\ \A j \in 1..Len(s) : NameRank(s[k].product) <= NameRank(s[j].product)
                   /\ \A j \in 1..(k - 1) : NameRank(s[k].product) < NameRank(s[j].product)
       IN <<s[i]>> \o SortedByName(SubSeq(s, 1, i - 1) \o SubSeq(s, i + 1, Len(s)))

\* _format_global_response
FormatGlobalResponse(tagged) ==
  IF tagged = <<>>
  THEN Response("global_empty", {"message", "suggestion", "confidence"}, "medium")
  ELSE LET by_product == GroupByProduct(tagged, <<>>)
           product_results ==
             [k \in 1..Len(by_product) |->
                [product |-> Upper(by_product[k].product),
                 count |-> Len(by_product[k].assets),
                 assets |-> by_product[k].assets]]
       IN [Response("global",
                    {"message", "total_count", "products_with_assets", "confidence",
                     "by_product", "summary"},
                    "high")
             EXCEPT !.total_count = Len(tagged),
                    !.products_with_assets = Len(by_product),
                    !.by_product = SortedByName(product_results)]

\* a scan that sets asset['product'] on the snapshot's own entries
ScanTaggingInPlace(doc, intent) ==
  [doc EXCEPT !.assets =
     [k \in 1..Len(doc.assets) |->
        [doc.assets[k] EXCEPT !.items =
           [j \in 1..Len(doc.assets[k].items) |->
              IF ShouldInclude(intent, doc.assets[k].items[j])
              THEN [product |-> doc.assets[k].product] @@ doc.assets[k].items[j]
              ELSE doc.assets[k].items[j]]]]]

\* asset_data after the scan of _handle_global_query: the product is set on
\* asset.copy(), the entries of the snapshot stay as they were
AssetDataAfterScan(doc, intent) == doc

\* _handle_global_query
HandleGlobalQuery(doc, p) ==
  IF "assets" \notin doc.keys THEN Raise
  ELSE Return(FormatGlobalResponse(AllMatchingAssets(p.primary_intent, doc.assets)))

\* ------------------------------------------------------------------------
\* Color queries
\* ------------------------------------------------------------------------

\* _format_general_color_response: reads color_data['summary'] and ['categories']
FormatGeneralColorResponse(palette, p) ==
  LET color_type == p.color_context.color_type
      extra == CASE color_type = "brand_colors" -> {"brand_colors"}
                 [] color_type = "semantic_colors" -> {"semantic_colors"}
                 [] color_type = "functional_colors" -> {"functional_colors"}
                 [] color_type = "utility_colors" -> {"utility_colors"}
                 [] color_type = None -> {"overview", "families"}
                 [] OTHER -> {}
  IN IF ~({"summary", "categories"} \subseteq palette.keys) THEN Raise
     ELSE Return(Response("colors", {"message", "confidence", "type"} \cup extra, "high"))

\* _format_color_families_response: reads color_data.get('families', {})
FormatColorFamiliesResponse(palette, p) ==
  LET families == FamiliesOf(palette)
      requested == p.color_context.color_family
  IN IF requested # None /\ \E k \in 1..Len(families) : families[k].name = requested
     THEN Return([Response("color_family",
                           {"message", "family", "shades", "total_shades", "usage",
                            "confidence", "type"},
                           "high")
                    EXCEPT !.count =
                      Len(families[CHOOSE k \in 1..Len(families) :
                                      families[k].name = requested].shades)])
     ELSE Return([Response("color_families",
                           {"message", "families", "total_families", "confidence", "type"},
                           "high")
                    EXCEPT !.count = Len(families)])

\* _format_design_system_response: reads color_data['summary'] and ['families']
FormatDesignSystemResponse(palette, p) ==
  IF ~({"summary", "families"} \subseteq palette.keys) THEN Raise
  ELSE Return(Response("design_system",
                       {"message", "design_system", "usage", "confidence", "type"},
                       "high"))

\* _handle_color_query
HandleColorQuery(palette, p) ==
  IF Falsy(palette)
  THEN Return([Response("color_unavailable", {"error", "suggestion"}, Absent)
                 EXCEPT !.error = "Color data not loaded"])
  ELSE IF p.primary_intent = "colors" THEN FormatGeneralColorResponse(palette, p)
  ELSE IF p.primary_intent = "color_families" THEN FormatColorFamiliesResponse(palette, p)
  ELSE IF p.primary_intent = "design_system" THEN FormatDesignSystemResponse(palette, p)
  ELSE FormatGeneralColorResponse(palette, p)

\* ------------------------------------------------------------------------
\* SemanticAssetMatcher.find_assets and the MCP tool get_brand_assets
\* ------------------------------------------------------------------------

\* parsed before _parse_request has run
NotParsed == [reached |-> FALSE]

\* a dispatch in which technical_docs is not a cross-product intent
FindAssetsParsedNarrow(doc, palette, p) ==
  IF p.primary_intent \in {"colors", "color_families", "design_system"}
  THEN HandleColorQuery(palette, p)
  ELSE IF p.product # None
  THEN IF "assets" \notin doc.keys THEN Raise
       ELSE FormatResponse(doc, MatchAssets(doc, p.product, p), p)
  ELSE IF p.primary_intent \in {"documents", "sales_materials", "all_assets"}
  THEN HandleGlobalQuery(doc, p)
  ELSE GenerateProductHelp(doc)

\* find_assets after the "not asset_data" test, with the parsed request p
FindAssetsParsed(doc, palette, p) ==
  IF p.primary_intent \in {"colors", "color_families", "design_system"}
  THEN HandleColorQuery(palette, p)
  ELSE IF p.product # None
  THEN IF "assets" \notin doc.keys THEN Raise
       ELSE FormatResponse(doc, MatchAssets(doc, p.product, p), p)
  ELSE IF p.primary_intent \in {"documents", "sales_materials", "technical_docs", "all_assets"}
  THEN HandleGlobalQuery(doc, p)
  ELSE GenerateProductHelp(doc)

\* a find_assets result together with the parsed request it worked on
WithParsed(result, p) == [raised |-> result.raised, value |-> result.value, parsed |-> p]

\* find_assets(request) under the globals asset_data = doc, color_data = palette
FindAssets(doc, palette, req) ==
  IF Falsy(doc)
  THEN WithParsed(Return([Response("not_loaded", {"error"}, Absent)
                            EXCEPT !.error = "Asset data not loaded"]),
                  NotParsed)
  ELSE LET p == ParseRequest(req, palette)
       IN WithParsed(FindAssetsParsed(doc, palette, p), p)

\* the module global asset_data after find_assets returned: only the global
\* scan walks over the snapshot's entries with an assignment in its loop body
AssetDataAfter(doc, p) ==
  IF /\ p # NotParsed
     /\ p.primary_intent \notin {"colors", "color_families", "design_system"}
     /\ p.product = None
     /\ p.primary_intent \in {"documents", "sales_materials", "technical_docs", "all_assets"}
     /\ "assets" \in doc.keys
  THEN AssetDataAfterScan(doc, p.primary_intent)
  ELSE doc

\* get_brand_assets without its try/except: an exception of find_assets escapes
GuardedCallNoTry(result) ==
  [escaped |-> result.raised, value |-> result.value]

\* the try/except of get_brand_assets around matcher.find_assets(request)
GuardedCall(result) ==
  IF result.raised
  THEN [escaped |-> FALSE,
        value |-> [Response("processing_error", {"error", "suggestion"}, Absent)
                     EXCEPT !.error = "Error processing request"]]
  ELSE [escaped |-> FALSE, value |-> result.value]

\* Outcomes of the metadata fetch a call can see
AssetOutcomes == {FetchFailed} \cup AssetDocuments

\* Outcomes of the palette fetch a call can see
PaletteOutcomes == {FetchFailed} \cup PaletteDocuments

\* No fetch was made
NoFetch == [failed |-> FALSE]

\* ------------------------------------------------------------------------
\* The server process
\* ------------------------------------------------------------------------

NoResponse == Response("none", {}, Absent)

\* The collaborators have not run
PaletteIdle ==
  /\ utility_colors = <<>>
  /\ families_out = <<>>

CliIdle ==
  /\ argv = <<>>
  /\ metadata_file = NoData
  /\ patterns_file = NoData
  /\ stdout = <<>>
  /\ stderr = <<>>
  /\ exit_code = None
  /\ search_call = None
  /\ search_result = None

Init ==
  /\ pc = "startup"
  /\ asset_data = NoData
  /\ color_data = NoData
  /\ request = <<>>
  /\ parsed = NotParsed
  /\ response = NoResponse
  /\ propagated = FALSE
  /\ fetches = 0
  /\ PaletteIdle
  /\ CliIdle

\* Module import: "Load data on startup" calls both loaders once
Startup(asset_outcome, palette_outcome) ==
  /\ pc = "startup"
  /\ asset_data' = LoadAssetData(asset_data, asset_outcome).data
  /\ color_data' = LoadColorData(color_data, palette_outcome).data
  /\ pc' = "idle"
  /\ UNCHANGED <<request, parsed, response, propagated, fetches>>
  /\ UNCHANGED <<palette_vars, cli_vars>>

\* One call of the tool get_brand_assets(request)
GetBrandAssets(req, asset_outcome, palette_outcome) ==
  /\ pc = "idle"
  /\ asset_outcome \in (IF Falsy(asset_data) THEN AssetOutcomes ELSE {NoFetch})
  /\ \E loaded \in {IF Falsy(asset_data)
                     THEN LoadAssetData(asset_data, asset_outcome)
                     ELSE [ok |-> TRUE, data |-> asset_data]} :
        /\ fetches' = IF Falsy(asset_data) THEN 1 ELSE 0
        /\ request' = req
        /\ pc' = "replied"
        /\ IF ~loaded.ok
           THEN /\ palette_outcome = NoFetch
                /\ response' = [Response("unable_to_load", {"error"}, Absent)
                                  EXCEPT !.error = "Unable to load asset data"]
                /\ parsed' = NotParsed
                /\ propagated' = FALSE
                /\ asset_data' = loaded.data
                /\ UNCHANGED color_data
           ELSE /\ palette_outcome \in
                     (IF Falsy(color_data) THEN PaletteOutcomes ELSE {NoFetch})
                /\ \E palette \in {IF Falsy(color_data)
                                     THEN LoadColorData(color_data, palette_outcome).data
                                     ELSE color_data} :
                   \E result \in {FindAssets(loaded.data, palette, req)} :
                   \E call \in {GuardedCall(result)} :
                      /\ asset_data' = AssetDataAfter(loaded.data, result.parsed)
                      /\ color_data' = palette
                      /\ response' = call.value
                      /\ propagated' = call.escaped
                      /\ parsed' = result.parsed
  /\ UNCHANGED <<palette_vars, cli_vars>>

\* The result is handed to the MCP client and the server waits for the next call
Deliver ==
  /\ pc = "replied"
  /\ pc' = "idle"
  /\ request' = <<>>
  /\ parsed' = NotParsed
  /\ response' = NoResponse
  /\ propagated' = FALSE
  /\ fetches' = 0
  /\ UNCHANGED <<asset_data, color_data>>
  /\ UNCHANGED <<palette_vars, cli_vars>>

Next ==
  \/ \E a \in AssetOutcomes, c \in PaletteOutcomes : Startup(a, c)
  \/ \E req \in ToolRequests, a \in AssetOutcomes \cup {NoFetch},
        c \in PaletteOutcomes \cup {NoFetch} : GetBrandAssets(req, a, c)
  \/ Deliver

Spec == Init /\ [][Next]_vars

\* ------------------------------------------------------------------------
\* The matcher driven directly, as the test scripts do: a snapshot is placed in
\* the module globals and matcher.find_assets(query) is called
\* ------------------------------------------------------------------------

\* Palettes the test scripts run with: none, or the loaded palette
MatcherPalettes == {NoData, FullPalette}

MatcherInit ==
  /\ pc = "idle"
  /\ asset_data \in ValidInventories
  /\ color_data \in MatcherPalettes
  /\ request = <<>>
  /\ parsed = NotParsed
  /\ response = NoResponse
  /\ propagated = FALSE
  /\ fetches = 0
  /\ PaletteIdle
  /\ CliIdle

\* One direct call matcher.find_assets(req); an exception reaches the caller
FindAssetsCall(req) ==
  /\ pc = "idle"
  /\ \E result \in {FindAssets(asset_data, color_data, req)} :
        /\ response' = result.value
        /\ propagated' = result.raised
        /\ parsed' = result.parsed
        /\ asset_data' = AssetDataAfter(asset_data, result.parsed)
  /\ request' = req
  /\ pc' = "replied"
  /\ UNCHANGED <<color_data, fetches>>
  /\ UNCHANGED <<palette_vars, cli_vars>>

MatcherNext ==
  \/ \E req \in Requests : FindAssetsCall(req)
  \/ Deliver

MatcherSpec == MatcherInit /\ [][MatcherNext]_vars

\* ------------------------------------------------------------------------
\* Color families (src/core-mcp-dev/process_colors.py): extract_color_families
\* ------------------------------------------------------------------------

\* A property name is the list prop_name.split('-'); each part is a list of tokens,
\* a token being one maximal run of digits or one run of other characters

\* The digit runs that occur in PropertyNames, with the value int() gives them
DigitRuns == {"7", "25", "50", "050", "100", "400", "500", "900"}

IntOf(run) ==
  CASE run = "7" -> 7
    [] run = "25" -> 25
    [] run = "50" -> 50
    [] run = "050" -> 50
    [] run = "100" -> 100
    [] run = "400" -> 400
    [] run = "500" -> 500
    [] run = "900" -> 900

\* re.findall(r'\d+', shade): the digit runs of a shade label, in order
FindDigitRuns(shade) == SelectSeq(shade, LAMBDA t : t \in DigitRuns)

\* the key of the sort that treats a label without digits as 0
ShadeSortKeyDigitlessFirst(shade) ==
  IF FindDigitRuns(shade) # <<>> THEN IntOf(FindDigitRuns(shade)[1]) ELSE 0

\* key=lambda x: int(re.findall(r'\d+', x['shade'])[0]) if re.findall(r'\d+', x['shade']) else 500
ShadeSortKey(shade) ==
  IF FindDigitRuns(shade) # <<>> THEN IntOf(FindDigitRuns(shade)[1]) ELSE 500

\* prop_name.startswith('utility-')
IsUtility(prop_name) == Len(prop_name) >= 2 /\ prop_name[1] = <<"utility">>

\* parts = prop_name.split('-')[1:]
PartsOf(prop_name) == Tail(prop_name)

\* len(parts) >= 3 and parts[1] in ['light', 'dark']
HasToneFamily(parts) == Len(parts) >= 3 /\ parts[2] \in {<<"light">>, <<"dark">>}

\* family_name: f"{parts[0]}-{parts[1]}" or parts[0]
FamilyName(parts) == IF HasToneFamily(parts) THEN <<parts[1], parts[2]>> ELSE <<parts[1]>>

\* shade: parts[2] or parts[1]
Shade(parts) == IF HasToneFamily(parts) THEN parts[3] ELSE parts[2]

\* the properties the loop files under a family: utility properties with len(parts) >= 2
FiledProperties(colors) ==
  SelectSeq(colors, LAMBDA n : IsUtility(n) /\ Len(PartsOf(n)) >= 2)

\* the entry appended for one property (its color value is copied and not modelled)
ShadeEntry(prop_name) ==
  [family |-> FamilyName(PartsOf(prop_name)),
   shade |-> Shade(PartsOf(prop_name)),
   property |-> prop_name]

\* the entries of all families in the order the loop appends them
ShadeEntries(colors) ==
  [k \in 1..Len(FiledProperties(colors)) |-> ShadeEntry(FiledProperties(colors)[k])]

\* the keys of the dict families, in insertion order
FamilyNames(entries) ==
  LET first == SelectSeq([k \in 1..Len(entries) |-> k],
                         LAMBDA k : \A j \in 1..(k - 1) : entries[j].family # entries[k].family)
  IN [i \in 1..Len(first) |-> entries[first[i]].family]

RECURSIVE SortedByShade(_)
\* families[family].sort(key=...): ascending, equal keys keep their order
SortedByShade(s) ==
  IF s = <<>> THEN <<>>
  ELSE LET i == CHOOSE k \in 1..Len(s) :
                   /\ \A j \in 1..Len(s) : ShadeSortKey(s[j].shade) >= ShadeSortKey(s[k].shade)
                   /\ \A j \in 1..(k - 1) : ShadeSortKey(s[j].shade) > ShadeSortKey(s[k].shade)
       IN <<s[i]>> \o SortedByShade(SubSeq(s, 1, i - 1) \o SubSeq(s, i + 1, Len(s)))

\* extract_color_families(utility_colors): the families in insertion order, each with
\* its sorted shade list
ExtractColorFamilies(colors) ==
  LET entries == ShadeEntries(colors)
      names == FamilyNames(entries)
  IN [i \in 1..Len(names) |->
        [family |-> names[i],
         shades |-> SortedByShade(SelectSeq(entries, LAMBDA e : e.family = names[i]))]]

\* Property names the extraction is run on: shades of one family with small, large,
\* equal and missing numbers, a toned family, another family, and names it skips
PropertyNames ==
  { << <<"utility">>, <<"blue">>, <<"50">> >>,
    << <<"utility">>, <<"blue">>, <<"050">> >>,
    << <<"utility">>, <<"blue">>, <<"100">> >>,
    << <<"utility">>, <<"blue">>, <<"500">> >>,
    << <<"utility">>, <<"blue">>, <<"900">> >>,
    << <<"utility">>, <<"blue">>, <<"dark">> >>,
    << <<"utility">>, <<"blue">>, <<"light">>, <<"400">> >>,
    << <<"utility">>, <<"gray">>, <<"25", "alt", "7">> >>,
    << <<"utility">>, <<"gray">>, <<"alt", "7">> >>,
    << <<"utility">>, <<"white">> >>,
    << <<"brand">>, <<"600">> >> }

\* Most properties in one run
MaxProperties == 3

RECURSIVE ListsOf(_, _)
\* the lists of at most n distinct members of a set (a dict has no key twice)
ListsOf(S, n) ==
  IF n = 0 THEN {<<>>}
  ELSE {<<>>} \cup UNION {{<<x>> \o rest : rest \in ListsOf(S \ {x}, n - 1)} : x \in S}

\* The server process has not started
ServerOff ==
  /\ asset_data = NoData
  /\ color_data = NoData
  /\ request = <<>>
  /\ parsed = NotParsed
  /\ response = NoResponse
  /\ propagated = FALSE
  /\ fetches = 0

PaletteInit ==
  /\ pc = "extract"
  /\ utility_colors \in ListsOf(PropertyNames, MaxProperties)
  /\ families_out = <<>>
  /\ ServerOff
  /\ CliIdle

\* One call families = extract_color_families(categorized['utility'])
ExtractColorFamiliesCall ==
  /\ pc = "extract"
  /\ families_out' = ExtractColorFamilies(utility_colors)
  /\ pc' = "extracted"
  /\ UNCHANGED <<utility_colors, server_vars, cli_vars>>

PaletteNext == ExtractColorFamiliesCall

PaletteSpec == PaletteInit /\ [][PaletteNext]_vars

\* ------------------------------------------------------------------------
\* The search command (src/interfaces/mcp-server/cli_wrapper.py): enhanced_search
\* ------------------------------------------------------------------------

\* An entry of asset_data['assets'][product]; the fields are read with .get
CliAsset(key, type, layout, filename, tags, document_type) ==
  [key |-> key, type |-> type, layout |-> layout, filename |-> filename, tags |-> tags,
   searchable_content |-> <<>>, content_summary |-> <<>>, document_type |-> document_type]

\* str.strip() for blanks
RECURSIVE Strip(_)
Strip(text) ==
  IF text = <<>> THEN <<>>
  ELSE IF Head(text) = " " THEN Strip(Tail(text))
  ELSE IF text[Len(text)] = " " THEN Strip(SubSeq(text, 1, Len(text) - 1))
  ELSE text

\* query.lower().strip()
QueryLower(query) == Strip(Lower(query))

\* "query_lower in text.lower()": the empty string is in every string
InLower(query_lower, text) == query_lower = <<>> \/ query_lower \in Substrings(Lower(text))

\* document_type.replace('-', ' ')
ReplaceHyphens(text) == [i \in 1..Len(text) |-> IF text[i] = "-" THEN " " ELSE text[i]]

\* resolved_product when no product was resolved: None, tested only by its truth value
NotResolved == <<>>

\* resolve_product_from_query; product names are lower case
ResolveProductFromQuery(query, patterns) ==
  IF Falsy(patterns) \/ "product_patterns" \notin patterns.keys THEN NotResolved
  ELSE LET names == patterns.product_patterns
           owners == {k \in 1..Len(names) :
                        \E a \in 1..Len(names[k].aliases) :
                           Lower(names[k].aliases[a]) = QueryLower(query)}
       IN IF \E k \in 1..Len(names) : names[k].product = QueryLower(query)
          THEN QueryLower(query)
          ELSE IF owners # {}
          THEN names[CHOOSE k \in owners : \A j \in owners : k <= j].product
          ELSE NotResolved

\* asset_asset_type: 'document' if asset_info.get('type') == 'document' else 'logo'
AssetAssetType(asset) == IF asset.type = "document" THEN "document" ELSE "logo"

\* the assets a type filter lets through (all of them without a filter)
OfAssetType(items, asset_type_filter) ==
  SelectSeq(items, LAMBDA a : asset_type_filter = None \/ AssetAssetType(a) = asset_type_filter)

\* the condition "matches" of the general search
QueryMatchesAsset(query_lower, product, asset) ==
  \/ InLower(query_lower, product)
  \/ InLower(query_lower, asset.key)
  \/ InLower(query_lower, asset.filename)
  \/ \E t \in 1..Len(asset.tags) : InLower(query_lower, asset.tags[t])
  \/ \E t \in 1..Len(asset.searchable_content) :
        InLower(query_lower, asset.searchable_content[t])
  \/ InLower(query_lower, asset.content_summary)
  \/ InLower(query_lower, ReplaceHyphens(asset.document_type))

\* the index of a product in a dict of products, 0 when it is not a key
KeyIndex(results, product) ==
  IF \E k \in 1..Len(results) : results[k].product = product
  THEN CHOOSE k \in 1..Len(results) : results[k].product = product
  ELSE 0

\* results[product] = items: a new key goes last, an old key keeps its place
DictSet(results, product, items) ==
  IF KeyIndex(results, product) = 0
  THEN Append(results, [product |-> product, items |-> items])
  ELSE [results EXCEPT ![KeyIndex(results, product)].items = items]

\* the number of assets held by a dict of products
RECURSIVE CountAssets(_)
CountAssets(results) ==
  IF results = <<>> THEN 0 ELSE Len(Head(results).items) + CountAssets(Tail(results))

\* STEP 1 with a resolved product: results and total_found after lines 76-97
SpecificSearch(resolved_product, assets, asset_type_filter) ==
  IF resolved_product = <<"ciq">> \/ KeyIndex(assets, resolved_product) = 0
  THEN <<>>
  ELSE << [product |-> resolved_product,
           items |-> OfAssetType(assets[KeyIndex(assets, resolved_product)].items,
                                 asset_type_filter)] >>

\* the keyword search of lines 99-130: products with at least one kept match
GeneralSearch(query_lower, assets, asset_type_filter) ==
  SelectSeq([k \in 1..Len(assets) |->
               [product |-> assets[k].product,
                items |-> OfAssetType(
                            SelectSeq(assets[k].items,
                                      LAMBDA a : QueryMatchesAsset(query_lower,
                                                                   assets[k].product, a)),
                            asset_type_filter)]],
            LAMBDA r : r.items # <<>>)

\* the default of ciq_rules.get('general_search_keywords', ...); '' is tested apart
DefaultGeneralKeywords == << <<"logo">>, <<"brand">>, <<"company">>, <<"all">>, <<>> >>

\* patterns.get('search_rules', {})...get('general_search_keywords', default)
GeneralKeywords(patterns) ==
  IF "search_rules" \in patterns.keys THEN patterns.general_search_keywords
  ELSE DefaultGeneralKeywords

\* should_include_ciq for a loaded patterns document
ShouldIncludeCiq(query_lower, resolved_product, patterns) ==
  IF resolved_product = NotResolved
  THEN \/ \E k \in 1..Len(GeneralKeywords(patterns)) :
             Lower(GeneralKeywords(patterns)[k]) = query_lower
       \/ query_lower = <<>>
  ELSE resolved_product = <<"ciq">>

\* the two built-in company logos
CiqLogos ==
  << CliAsset(<<"1color", "_", "light">>, "logo", "horizontal",
              <<"CIQ", "_", "logo", "_", "1clr", "_", "lightmode">>,
              << <<"company">>, <<"primary">>, <<"general", "-", "use">> >>, <<>>),
     CliAsset(<<"1color", "_", "dark">>, "logo", "horizontal",
              <<"CIQ", "_", "logo", "_", "1clr", "_", "darkmode">>,
              << <<"company">>, <<"dark", "-", "mode">> >>, <<>>) >>

\* the primary logo of a non-empty list of logos: the first horizontal one, else the first
PrimaryLogo(logos) ==
  IF \E k \in 1..Len(logos) : logos[k].layout = "horizontal"
  THEN logos[CHOOSE k \in 1..Len(logos) :
               /\ logos[k].layout = "horizontal"
               /\ \A j \in 1..(k - 1) : logos[j].layout # "horizontal"]
  ELSE logos[1]

\* filtered_assets of one product: its documents, then its primary logo
PrimaryVariantsOf(items) ==
  SelectSeq(items, LAMBDA a : a.type = "document")
    \o (IF SelectSeq(items, LAMBDA a : a.type # "document") = <<>> THEN <<>>
        ELSE <<PrimaryLogo(SelectSeq(items, LAMBDA a : a.type # "document"))>>)

\* filtered_results: products left with no asset are not entered
PrimaryVariants(results) ==
  SelectSeq([k \in 1..Len(results) |->
               [product |-> results[k].product, items |-> PrimaryVariantsOf(results[k].items)]],
            LAMBDA r : r.items # <<>>)

\* results and total_found at line 173, after the CIQ inclusion
SearchStage(query_lower, resolved_product, assets, patterns, asset_type_filter) ==
  LET found == IF resolved_product # NotResolved
               THEN SpecificSearch(resolved_product, assets, asset_type_filter)
               ELSE GeneralSearch(query_lower, assets, asset_type_filter)
  IN IF ShouldIncludeCiq(query_lower, resolved_product, patterns)
     THEN [results |-> DictSet(found, <<"ciq">>, CiqLogos),
           total_found |-> CountAssets(found) + Len(CiqLogos)]
     ELSE [results |-> found, total_found |-> CountAssets(found)]

\* the dict returned at lines 209-215 (the recommendation text is not modelled)
SearchSuccess(results, total_found) ==
  [error |-> None, status |-> "success", total_found |-> total_found, assets |-> results,
   confidence |-> IF total_found > 0 THEN "medium" ELSE "none"]

\* {"error": message}
SearchError(message) ==
  [error |-> message, status |-> None, total_found |-> 0, assets |-> <<>>,
   confidence |-> None]

\* enhanced_search raised: patterns.get on None at line 135
SearchRaised == [raised |-> TRUE, value |-> SearchError("AttributeError")]

\* enhanced_search(query, asset_data, patterns, show_all_variants, asset_type_filter)
EnhancedSearch(query, doc, patterns, show_all_variants, asset_type_filter) ==
  IF Falsy(doc) \/ "assets" \notin doc.keys
  THEN [raised |-> FALSE, value |-> SearchError("No asset data available")]
  ELSE LET resolved_product == ResolveProductFromQuery(query, patterns)
       IN IF resolved_product = NotResolved /\ patterns = NoData
          THEN SearchRaised
          ELSE LET stage == SearchStage(QueryLower(query), resolved_product, doc.assets,
                                        patterns, asset_type_filter)
               IN [raised |-> FALSE,
                   value |-> IF ~show_all_variants /\ stage.results # <<>>
                             THEN SearchSuccess(PrimaryVariants(stage.results),
                                                CountAssets(PrimaryVariants(stage.results)))
                             ELSE SearchSuccess(stage.results, stage.total_found)]

\* An inventory as generate_metadata writes it: product logos and documents, and the
\* company logos under 'ciq'
CliInventory ==
  [keys |-> {"assets", "index"},
   assets |-> <<
     [product |-> <<"ciq">>,
      items |-> << CliAsset(<<"2color", "_", "light">>, "logo", "vertical",
                            <<"CIQ", "_", "logo", "_", "2clr">>, << <<"company">> >>, <<>>),
                   CliAsset(<<"overview">>, "document", Absent,
                            <<"CIQ", "_", "overview">>, << <<"document">> >>,
                            <<"overview">>) >>],
     [product |-> <<"fuzz", "b", "all">>,
      items |-> << CliAsset(<<"vertical", "_", "dark">>, "logo", "vertical",
                            <<"fuzz", "b", "all", "_", "logo", "_", "v">>,
                            << <<"brand">> >>, <<>>),
                   CliAsset(<<"horizontal", "_", "light">>, "logo", "horizontal",
                            <<"fuzz", "b", "all", "_", "logo", "_", "h">>, <<>>, <<>>),
                   CliAsset(<<"solution", "_", "brief">>, "document", Absent,
                            <<"fuzz", "b", "all", "_", "brief">>, << <<"document">> >>,
                            <<"solution", "-", "brief">>) >>],
     [product |-> <<"warewulf">>,
      items |-> << CliAsset(<<"icon", "_", "dark">>, "icon", "icon",
                            <<"Warewulf", "_", "icon">>, <<>>, <<>>),
                   CliAsset(<<"vertical", "_", "light">>, "logo", "vertical",
                            <<"Warewulf", "_", "logo", "_", "v">>, <<>>, <<>>) >>] >>]

\* The same inventory without a 'ciq' product
ProductInventory ==
  [keys |-> {"assets", "index"}, assets |-> Tail(CliInventory.assets)]

\* Inventories a search is run on
CliInventories == {CliInventory, ProductInventory, NoAssetsDocument}

\* search-patterns.json with product aliases and no search rules
ProductPatterns ==
  [keys |-> {"product_patterns"},
   product_patterns |-> << [product |-> <<"fuzz", "b", "all">>,
                            aliases |-> << <<"fuzz">> >>],
                           [product |-> <<"ciq">>,
                            aliases |-> << <<"ciq">>, <<"company", " ", "logo">> >>] >>,
   general_search_keywords |-> <<>>]

\* search-patterns.json that also sets the general search keywords
RulePatterns ==
  [keys |-> {"product_patterns", "search_rules"},
   product_patterns |-> ProductPatterns.product_patterns,
   general_search_keywords |-> << <<"logo">>, <<"brief">> >>]

\* What load_search_patterns can return: None when the file cannot be read
CliPatterns == {NoData, ProductPatterns, RulePatterns}

\* Queries of a search
CliQueries ==
  { <<>>, <<"logo">>, <<"brand">>, <<"fuzz">>, <<" ", "ciq">>, <<"Warewulf">>,
    <<"solution", " ", "brief">>, <<"document">>, <<"xyz123">> }

\* enhanced_search called directly with every combination of its arguments
SearchCalls ==
  [query : CliQueries, asset_data : CliInventories, patterns : CliPatterns,
   show_all_variants : BOOLEAN, asset_type_filter : {None, "logo", "document"}]

SearchInit ==
  /\ pc = "search"
  /\ search_call \in SearchCalls
  /\ search_result = None
  /\ argv = <<>>
  /\ metadata_file = NoData
  /\ patterns_file = NoData
  /\ stdout = <<>>
  /\ stderr = <<>>
  /\ exit_code = None
  /\ ServerOff
  /\ PaletteIdle

\* One call of enhanced_search; search_result records what it returned or that it raised
EnhancedSearchCall ==
  /\ pc = "search"
  /\ search_result' = EnhancedSearch(search_call.query, search_call.asset_data,
                                     search_call.patterns, search_call.show_all_variants,
                                     search_call.asset_type_filter)
  /\ pc' = "returned"
  /\ UNCHANGED <<search_call, argv, metadata_file, patterns_file, stdout, stderr, exit_code>>
  /\ UNCHANGED <<server_vars, palette_vars>>

SearchNext == EnhancedSearchCall

SearchSpec == SearchInit /\ [][SearchNext]_vars

\* ------------------------------------------------------------------------
\* The search command: main
\* ------------------------------------------------------------------------

\* Command-line words that begin with '-'
DashWords == {"-h", "--show-all-variants", "--asset-type", "--bogus"}

\* argparse takes an argument that begins with '-' for an option
IsOptionString(arg) == arg # <<>> /\ Head(arg) \in DashWords

\* choices=['logo', 'document', 'all']
AssetTypeChoices == {<<"logo">>, <<"document">>, <<"all">>}

\* parse_args() left through SystemExit; help tells whether the help text was printed
Rejected(help) ==
  [ok |-> FALSE, help |-> help, query |-> <<>>, show_all_variants |-> FALSE,
   asset_type |-> <<"all">>]

\* The namespace before any argument is read: query unset, the declared defaults
EmptyNamespace ==
  [has_query |-> FALSE, query |-> <<>>, show_all_variants |-> FALSE,
   asset_type |-> <<"all">>, extras |-> FALSE]

RECURSIVE ParseFrom(_, _, _)
\* parser.parse_args() from argument i on: options are handled where they stand, the
\* first positional is the query, further positionals and unknown options are left
\* over, and -h prints the help to standard output and exits at once
ParseFrom(args, i, ns) ==
  IF i > Len(args)
  THEN IF ns.has_query /\ ~ns.extras
       THEN [ok |-> TRUE, help |-> FALSE, query |-> ns.query,
             show_all_variants |-> ns.show_all_variants, asset_type |-> ns.asset_type]
       ELSE Rejected(FALSE)
  ELSE IF ~IsOptionString(args[i])
  THEN IF ns.has_query
       THEN ParseFrom(args, i + 1, [ns EXCEPT !.extras = TRUE])
       ELSE ParseFrom(args, i + 1, [ns EXCEPT !.has_query = TRUE, !.query = args[i]])
  ELSE CASE Head(args[i]) = "-h" -> Rejected(TRUE)
         [] Head(args[i]) = "--show-all-variants" ->
              ParseFrom(args, i + 1, [ns EXCEPT !.show_all_variants = TRUE])
         [] Head(args[i]) = "--asset-type" ->
              IF i + 1 <= Len(args) /\ ~IsOptionString(args[i + 1])
                   /\ args[i + 1] \in AssetTypeChoices
              THEN ParseFrom(args, i + 2, [ns EXCEPT !.asset_type = args[i + 1]])
              ELSE Rejected(FALSE)
         [] OTHER -> ParseFrom(args, i + 1, [ns EXCEPT !.extras = TRUE])

\* parser.parse_args() on sys.argv[1:]
ParseArgs(args) == ParseFrom(args, 1, EmptyNamespace)

\* print(json.dumps(obj)): one line holding one JSON object
JsonLine(obj) == [kind |-> "json", object |-> obj]

\* the help text argparse prints to standard output
HelpText == [kind |-> "text", object |-> SearchError("help")]

\* {"error": "Usage: ..."}
UsageError == SearchError("Usage")

\* the arguments main passes on: those parsed, or the single argument as the query
CallArguments(args, parse) ==
  IF parse.ok
  THEN [query |-> parse.query, show_all_variants |-> parse.show_all_variants,
        asset_type_filter |-> IF parse.asset_type # <<"all">>
                              THEN Head(parse.asset_type) ELSE None]
  ELSE [query |-> args[1], show_all_variants |-> FALSE, asset_type_filter |-> None]

\* No call of enhanced_search was made, and nothing was returned
NoCall == [made |-> FALSE]
NoResult == [raised |-> FALSE, value |-> SearchError("none")]

\* main(): what the run writes, how it exits, and the search it made.  metadata and
\* patterns are what load_asset_data() and load_search_patterns() return in this run
Main(args, metadata, patterns) ==
  LET parse == ParseArgs(args)
      printed == IF parse.help THEN <<HelpText>> ELSE <<>>
      errors == IF ~parse.ok /\ ~parse.help THEN <<"argparse error">> ELSE <<>>
  IN IF ~parse.ok /\ Len(args) # 1
     THEN [stdout |-> printed \o <<JsonLine(UsageError)>>, stderr |-> errors,
           exit_code |-> 1, call |-> NoCall, result |-> NoResult]
     ELSE IF Falsy(metadata)
     THEN [stdout |-> printed \o <<JsonLine(SearchError("Failed to load asset data"))>>,
           stderr |-> errors \o <<"progress">>,
           exit_code |-> 1, call |-> NoCall, result |-> NoResult]
     ELSE LET a == CallArguments(args, parse)
              call == [made |-> TRUE, query |-> a.query, asset_data |-> metadata,
                       patterns |-> patterns, show_all_variants |-> a.show_all_variants,
                       asset_type_filter |-> a.asset_type_filter]
              result == EnhancedSearch(a.query, metadata, patterns, a.show_all_variants,
                                       a.asset_type_filter)
              log == errors \o <<"progress">>
                       \o (IF patterns = NoData THEN <<"warning">> ELSE <<>>)
                       \o (IF "assets" \in metadata.keys THEN <<"search progress">> ELSE <<>>)
          IN IF result.raised
             THEN [stdout |-> printed, stderr |-> log \o <<"traceback">>,
                   exit_code |-> 1, call |-> call, result |-> result]
             ELSE [stdout |-> printed \o <<JsonLine(result.value)>>, stderr |-> log,
                   exit_code |-> 0, call |-> call, result |-> result]

\* Words of a command line: queries, the declared options, values of --asset-type,
\* the help option and an undeclared option
CliArgs ==
  { <<"fuzz">>, <<>>, <<"logo">>, <<"document">>, <<"all">>, <<"pdf">>,
    <<"--show-all-variants">>, <<"--asset-type">>, <<"-h">>, <<"--bogus">> }

\* Most arguments on a command line
MaxArgs == 3

RECURSIVE ArgLists(_)
\* the command lines of at most n arguments
ArgLists(n) ==
  IF n = 0 THEN {<<>>}
  ELSE {<<>>} \cup {<<x>> \o rest : x \in CliArgs, rest \in ArgLists(n - 1)}

\* What load_asset_data() can return: None, or a decoded document
MetadataOutcomes == {NoData, NoAssetsDocument, CliInventory}

CliInit ==
  /\ pc = "cli"
  /\ argv \in ArgLists(MaxArgs)
  /\ metadata_file \in MetadataOutcomes
  /\ patterns_file \in CliPatterns
  /\ stdout = <<>>
  /\ stderr = <<>>
  /\ exit_code = None
  /\ search_call = None
  /\ search_result = None
  /\ ServerOff
  /\ PaletteIdle

\* One run of the command, from the start of main() to the exit of the process
CliRun ==
  /\ pc = "cli"
  /\ \E run \in {Main(argv, metadata_file, patterns_file)} :
        /\ stdout' = run.stdout
        /\ stderr' = run.stderr
        /\ exit_code' = run.exit_code
        /\ search_call' = run.call
        /\ search_result' = run.result
  /\ pc' = "exited"
  /\ UNCHANGED <<argv, metadata_file, patterns_file, server_vars, palette_vars>>

CliNext == CliRun

CliSpec == CliInit /\ [][CliNext]_vars

\* ------------------------------------------------------------------------
\* Properties
\* ------------------------------------------------------------------------

\* a call has returned and _parse_request ran inside it
Parsed == pc = "replied" /\ parsed # NotParsed

\* the lower-cased request of the last call, as the parser sees it
RequestText == Substrings(Lower(request))

\* the aliases found in the last request, in the order of the first pass
RequestMatches == FirstPass(RequestText)

\* the products that own one of the matched aliases
ProductsOf(matches) == { matches[k].prod : k \in 1..Len(matches) }

\* the product owns an alias of the greatest length among the matched aliases
OwnsLongestAlias(matches, product) ==
  \E k \in 1..Len(matches) :
     /\ matches[k].prod = product
     /\ \A j \in 1..Len(matches) : matches[j].length <= matches[k].length

\* the only alias occurring in the request is the short code 'rlc'
OnlyAliasIsRlc(matches) == Len(matches) = 1 /\ matches[1].pattern = <<"rlc">>

\* aliases of both the base product and its LTS variant occur
BothRlcAndLts(matches) == {"rlc", "rlc-lts"} \subseteq ProductsOf(matches)

\* the keys load_asset_data requires
RequiredKeys == {"assets", "rules", "index"}

\* the keys load_color_data requires (the summary is read right after the check)
RequiredPaletteKeys == {"colors", "categories", "families", "summary"}

\* the three color intents
ColorIntents == {"colors", "color_families", "design_system"}

\* the intents served across products when no product is named
GlobalIntents == {"documents", "sales_materials", "technical_docs", "all_assets"}

\* C1 (as claimed): with a snapshot loaded, find_assets("") returns the help/menu
\* response (help = true, confidence 'none') and does not raise.
C1_EmptyQueryReturnsHelp ==
  (pc = "replied" /\ request = <<>> /\ ~Falsy(asset_data)) =>
     /\ ~propagated
     /\ response.shape = "product_help"
     /\ "help" \in response.keys
     /\ response.confidence = "none"

\* C2 (as claimed): a request that names a product and neither a background nor a
\* layout, for a product with at least two logos, gets the clarifying question
\* "What background will you be using this on?" and no asset list.
C2_ProductOnlyAsksBackground ==
  (/\ Parsed
   /\ parsed.product # None
   /\ parsed.background = None
   /\ parsed.layout = None
   /\ Len(Logos(ProductAssets(asset_data, parsed.product))) >= 2) =>
     /\ response.shape = "clarifying_background"
     /\ response.confidence = "clarifying"
     /\ "question" \in response.keys
     /\ "assets" \notin response.keys

\* C3 (as claimed): every document-intent request that contains any alias of rlc
\* resolves to rlc-lts.
C3_AnyRlcAliasResolvesToLts ==
  (Parsed /\ IsDocumentQuery(parsed.intent_scores)) =>
     \A matches \in {RequestMatches} :
        "rlc" \in ProductsOf(matches) => parsed.product = "rlc-lts"

\* C3 (amended): a document-intent request resolves to rlc-lts when the only alias
\* it contains is the short code 'rlc', or when aliases of both rlc and rlc-lts occur.
C3_RlcDocumentsResolveToLts ==
  (Parsed /\ IsDocumentQuery(parsed.intent_scores)) =>
     \A matches \in {RequestMatches} :
        (OnlyAliasIsRlc(matches) \/ BothRlcAndLts(matches)) => parsed.product = "rlc-lts"

\* C3 witness: a document request whose only alias is 'rlc' was resolved to rlc-lts
C3_Witness ==
  /\ Parsed
  /\ IsDocumentQuery(parsed.intent_scores)
  /\ OnlyAliasIsRlc(RequestMatches)
  /\ parsed.product = "rlc-lts"

\* C4 (as claimed): when aliases of two or more products match, the resolved product
\* owns the longest matched alias, whatever the intent scores.
C4_LongestAliasAlwaysWins ==
  Parsed =>
     \A matches \in {RequestMatches} :
        Cardinality(ProductsOf(matches)) >= 2 => OwnsLongestAlias(matches, parsed.product)

\* C4 (amended): when aliases of two or more products match, the resolved product
\* owns the longest matched alias, except for a document-intent request in which
\* aliases of both rlc and rlc-lts match: that one resolves to rlc-lts.
C4_LongestAliasWins ==
  Parsed =>
     \A matches \in {RequestMatches} :
        Cardinality(ProductsOf(matches)) >= 2 =>
           IF IsDocumentQuery(parsed.intent_scores) /\ BothRlcAndLts(matches)
           THEN parsed.product = "rlc-lts"
           ELSE OwnsLongestAlias(matches, parsed.product)

\* C4 witness: two products matched and the one visited later by the first pass won
\* because its alias is longer
C4_Witness ==
  /\ Parsed
  /\ \E matches \in {RequestMatches} :
       /\ Cardinality(ProductsOf(matches)) >= 2
       /\ ~(IsDocumentQuery(parsed.intent_scores) /\ BothRlcAndLts(matches))
       /\ matches[1].prod # parsed.product
       /\ OwnsLongestAlias(matches, parsed.product)
       /\ ~OwnsLongestAlias(matches, matches[1].prod)

\* C5: the parsed confidence lies in [0,1]; intent_scores has exactly one entry per
\* declared category, each score in [0,1], and 0 when no pattern of the category
\* occurs in the request.
C5_ConfidenceAndScoresBounded ==
  Parsed =>
     /\ parsed.confidence \in 0..ConfidenceUnit
     /\ Len(parsed.intent_scores) = Len(intent_categories)
     /\ \A text \in {RequestText} :
        \A k \in 1..Len(intent_categories) :
          /\ parsed.intent_scores[k].name = intent_categories[k].name
          /\ \A j \in 1..Len(intent_categories) :
               parsed.intent_scores[j].name = parsed.intent_scores[k].name => j = k
          /\ parsed.intent_scores[k].score \in 0..IntentUnit
          /\ (~AnyIn(text, intent_categories[k].patterns)
                => parsed.intent_scores[k].score = 0)

\* C5 witness: a request whose matched patterns add up to more than 1.0 in one
\* category and to nothing in another, with the confidence at its cap
C5_Witness ==
  /\ Parsed
  /\ parsed.confidence = ConfidenceUnit
  /\ \E k \in 1..Len(intent_categories) :
       /\ parsed.intent_scores[k].score = IntentUnit
       /\ SumCharLen(parsed.intent_scores[k].patterns) > IntentUnit
  /\ \E k \in 1..Len(intent_categories) : parsed.intent_scores[k].score = 0

\* C6 (as claimed): every response of the query API carries 'message' and 'confidence'.
C6_EveryResponseHasMessageAndConfidence ==
  pc = "replied" => {"message", "confidence"} \subseteq response.keys

\* C6 (amended): every response that is not an error object carries 'message' and
\* 'confidence'; the data-unavailable, color-unavailable and processing-error
\* objects carry 'error' and neither of the two.
C6_NonErrorResponsesHaveMessageAndConfidence ==
  pc = "replied" =>
     IF "error" \in response.keys
     THEN /\ response.shape \in
               {"unable_to_load", "not_loaded", "color_unavailable", "processing_error"}
          /\ response.keys \cap {"message", "confidence"} = {}
     ELSE {"message", "confidence"} \subseteq response.keys

\* C6 witness: the help/menu response was returned by the tool
C6_Witness ==
  /\ pc = "replied"
  /\ response.shape = "product_help"
  /\ {"message", "confidence"} \subseteq response.keys

\* C7: get_brand_assets lets no exception escape; when find_assets raises, the
\* caller gets the error object with 'error' and 'suggestion'.
C7_NoExceptionEscapes ==
  /\ ~propagated
  /\ (/\ pc = "replied"
      /\ response.shape # "unable_to_load"
      /\ FindAssets(asset_data, color_data, request).raised) =>
        /\ response.shape = "processing_error"
        /\ {"error", "suggestion"} \subseteq response.keys

\* C7 witness: find_assets raised on a well-formed inventory and the tool returned
\* the error object
C7_Witness ==
  /\ pc = "replied"
  /\ RequiredKeys \subseteq asset_data.keys
  /\ FindAssets(asset_data, color_data, request).raised
  /\ response.shape = "processing_error"
  /\ ~propagated

\* C8 (as claimed): a metadata document without 'assets', 'rules' or 'index' is
\* never installed as the snapshot, and every call either reports the
\* unable-to-load error or works on a valid snapshot.
C8_MalformedMetadataNeverInstalled ==
  /\ ~Falsy(asset_data) => RequiredKeys \subseteq asset_data.keys
  /\ (pc = "replied" /\ response.shape # "unable_to_load") =>
        RequiredKeys \subseteq asset_data.keys

\* C9 (as claimed): with a valid asset snapshot and no palette loaded, every request
\* whose primary intent is a color intent gets the 'Color data not loaded' object.
C9_ColorQueriesWithoutPalette ==
  (/\ Parsed
   /\ RequiredKeys \subseteq asset_data.keys
   /\ ~(RequiredPaletteKeys \subseteq color_data.keys)
   /\ parsed.primary_intent \in ColorIntents) =>
     /\ response.shape = "color_unavailable"
     /\ response.error = "Color data not loaded"
     /\ response.keys = {"error", "suggestion"}
     /\ ~propagated

\* the number of assets of one inventory entry that satisfy the intent predicate
Qualifying(intent, entry) ==
  Cardinality({k \in 1..Len(entry.items) : ShouldInclude(intent, entry.items[k])})

RECURSIVE SumCounts(_)
\* the sum of the per-product counts of a grouped result
SumCounts(groups) ==
  IF groups = <<>> THEN 0 ELSE Head(groups).count + SumCounts(Tail(groups))

\* C10: the grouped result of a global query lists exactly the products that have
\* a qualifying asset, each once with its count >= 1; total_count is the sum of the
\* counts and products_with_assets the number of entries; when nothing qualifies
\* the response is a suggestion without an 'error' field.
C10_GlobalQueryGroups ==
  (Parsed /\ ~propagated /\ parsed.product = None
     /\ parsed.primary_intent \in GlobalIntents) =>
     LET intent == parsed.primary_intent
         entries == asset_data.assets
         with_assets == {k \in 1..Len(entries) : Qualifying(intent, entries[k]) > 0}
         groups == response.by_product
     IN IF with_assets = {}
        THEN /\ response.shape = "global_empty"
             /\ "error" \notin response.keys
             /\ {"message", "suggestion"} \subseteq response.keys
        ELSE /\ response.shape = "global"
             /\ "error" \notin response.keys
             /\ Len(groups) = Cardinality(with_assets)
             /\ \A k \in with_assets :
                  \E g \in 1..Len(groups) :
                     /\ groups[g].product = Upper(entries[k].product)
                     /\ groups[g].count = Qualifying(intent, entries[k])
                     /\ groups[g].count >= 1
             /\ response.products_with_assets = Len(groups)
             /\ response.total_count = SumCounts(groups)

\* C10 witness: a global query answered with some, but not all, products
C10_Witness ==
  /\ Parsed
  /\ response.shape = "global"
  /\ response.products_with_assets >= 2
  /\ response.products_with_assets < Len(asset_data.assets)
  /\ response.total_count > response.products_with_assets

\* the set of keys of a list of assets
KeySet(keys) == { keys[k] : k \in 1..Len(keys) }

\* the document assets of the product the last request resolved to
ProductDocuments == Documents(ProductAssets(asset_data, parsed.product))

\* the last request has a document primary intent and a product with documents
DocumentRequest ==
  /\ Parsed
  /\ parsed.primary_intent \in {"documents", "sales_materials"}
  /\ parsed.product # None
  /\ ProductDocuments # <<>>

\* the document-focused response: confidence 'high', the product named, all of
\* the product's documents listed and counted
DocumentsListed ==
  /\ ~propagated
  /\ response.shape = "documents"
  /\ response.confidence = "high"
  /\ {"message", "documents", "confidence"} \subseteq response.keys
  /\ response.product = parsed.product
  /\ KeySet(response.assets) = KeySet(KeysOf(ProductDocuments))
  /\ Len(response.assets) = Len(ProductDocuments)
  /\ response.count = Len(ProductDocuments)

\* C11 (as claimed): every request with a document primary intent for a product
\* that has documents gets the document-focused response listing all of them.
C11_DocumentRequestsListDocuments == DocumentRequest => DocumentsListed

\* C11 (amended): the same, unless the request carries the company/product
\* disambiguation flag, which is answered first.
C11_UnflaggedDocumentRequestsListDocuments ==
  (DocumentRequest /\ ~parsed.needs_ciq_disambiguation) => DocumentsListed

\* C11 witness: a sales-material request of low numeric confidence listed both
\* documents of its product
C11_Witness ==
  /\ DocumentRequest
  /\ DocumentsListed
  /\ Len(ProductDocuments) >= 2
  /\ GetConfidenceLevel(parsed.confidence) # "high"

\* the position of an asset among its product's assets in the snapshot
SnapshotPosition(items, key) == CHOOSE k \in 1..Len(items) : items[k].key = key

\* the matches are exactly the positively scored assets, ordered by score
\* descending, equal scores in snapshot order
RankedStably(items, matches, p) ==
  /\ Len(matches) = Cardinality({k \in 1..Len(items) : ScoreAssetSemantic(items[k], p) > 0})
  /\ \A i \in 1..Len(matches) :
       /\ \E k \in 1..Len(items) : items[k] = matches[i].asset
       /\ matches[i].score = ScoreAssetSemantic(matches[i].asset, p)
       /\ matches[i].score > 0
  /\ \A i, j \in 1..Len(matches) :
       i < j =>
         /\ matches[i].score >= matches[j].score
         /\ matches[i].score = matches[j].score =>
              SnapshotPosition(items, matches[i].asset.key)
                < SnapshotPosition(items, matches[j].asset.key)

\* C12: _match_assets returns the scored assets of the resolved product by score
\* descending, and assets of equal score keep their snapshot order.
C12_RankingIsStable ==
  (Parsed /\ parsed.product # None /\ "assets" \in asset_data.keys) =>
     RankedStably(ProductAssets(asset_data, parsed.product),
                  MatchAssets(asset_data, parsed.product, parsed), parsed)

\* C12 witness: the ranking of a request moved a later asset ahead of an earlier
\* one and had to order two assets of equal score
C12_Witness ==
  /\ Parsed
  /\ parsed.product # None
  /\ \E items \in {ProductAssets(asset_data, parsed.product)} :
     \E matches \in {MatchAssets(asset_data, parsed.product, parsed)} :
        /\ RankedStably(items, matches, parsed)
        /\ \E i, j \in 1..Len(matches) :
             i < j /\ matches[i].score = matches[j].score
        /\ \E i, j \in 1..Len(matches) :
             /\ i < j
             /\ matches[i].score > matches[j].score
             /\ SnapshotPosition(items, matches[i].asset.key)
                  > SnapshotPosition(items, matches[j].asset.key)

DisambiguationAsked ==
  /\ ~propagated
  /\ response.shape = "ciq_disambiguation"
  /\ response.confidence = "clarifying"
  /\ {"message", "question", "options", "confidence"} \subseteq response.keys

\* C15 (as claimed): whenever _parse_request sets the disambiguation flag,
\* find_assets returns the company-versus-product question.
C15_FlagAlwaysAsks ==
  (Parsed /\ parsed.needs_ciq_disambiguation) => DisambiguationAsked

\* C15 (amended): a flagged request gets the company-versus-product question
\* when its primary intent is not a color intent and the snapshot holds at least
\* one ciq asset; a color intent goes to the color handler and a snapshot
\* without ciq assets yields the no-assets-found response.
C15_FlagAsksUnlessColorOrNoAssets ==
  (Parsed /\ parsed.needs_ciq_disambiguation) =>
     /\ parsed.product = "ciq"
     /\ IF parsed.primary_intent \in ColorIntents
        THEN response.shape \in {"color_unavailable", "colors", "color_family",
                                 "color_families", "design_system"}
        ELSE IF ProductAssets(asset_data, "ciq") = <<>>
        THEN response.shape = "none_found" /\ response.confidence = "none"
        ELSE DisambiguationAsked

\* C15 witness: a flagged request with a document intent was answered with the
\* disambiguation question
C15_Witness ==
  /\ Parsed
  /\ parsed.needs_ciq_disambiguation
  /\ parsed.primary_intent = "documents"
  /\ DisambiguationAsked

\* the help/menu response listing the products of the snapshot's index
HelpMenuReturned ==
  /\ ~propagated
  /\ response.shape = "product_help"
  /\ response.confidence = "none"
  /\ {"help", "message", "examples", "confidence"} \subseteq response.keys
  /\ response.assets = asset_data.products

\* C16: without a resolved product and with a primary intent that is no color
\* intent, the four cross-product intents take the global path and every other
\* intent gets the help/menu response listing the snapshot's products.
C16_NoProductDispatch ==
  (Parsed /\ parsed.product = None /\ parsed.primary_intent \notin ColorIntents) =>
     IF parsed.primary_intent \in GlobalIntents
     THEN ~propagated /\ response.shape \in {"global", "global_empty"}
     ELSE HelpMenuReturned

\* C16 witness: a request without product and with a non-global intent got the
\* menu of a snapshot that knows products
C16_Witness ==
  /\ Parsed
  /\ parsed.product = None
  /\ parsed.primary_intent \in {"visual_assets", "case_studies"}
  /\ HelpMenuReturned
  /\ asset_data.products # <<>>

\* the intent categories in the order the claim declares them
DeclaredIntents ==
  <<"all_assets", "documents", "sales_materials", "technical_docs", "visual_assets",
    "case_studies", "colors", "color_families", "design_system">>

\* C20: the primary intent is a category of maximum score, and of several
\* categories with the maximum score the first declared one, also when every
\* score is 0.
C20_FirstDeclaredMaximumWins ==
  Parsed =>
     /\ [k \in 1..Len(intent_categories) |-> intent_categories[k].name] = DeclaredIntents
     /\ \E k \in 1..Len(DeclaredIntents) :
          /\ parsed.primary_intent = DeclaredIntents[k]
          /\ parsed.intent_scores[k].name = DeclaredIntents[k]
          /\ \A j \in 1..Len(DeclaredIntents) :
               parsed.intent_scores[j].score <= parsed.intent_scores[k].score
          /\ \A j \in 1..(k - 1) :
               parsed.intent_scores[j].score < parsed.intent_scores[k].score

\* C20 witness: two categories share a positive maximum and the earlier one is
\* the primary intent
C20_Witness ==
  /\ Parsed
  /\ \E k, j \in 1..Len(DeclaredIntents) :
       /\ k < j
       /\ parsed.primary_intent = DeclaredIntents[k]
       /\ parsed.intent_scores[k].score > 0
       /\ parsed.intent_scores[j].score = parsed.intent_scores[k].score

\* ------------------------------------------------------------------------
\* Color-family shade ordering
\* ------------------------------------------------------------------------

\* the place of a property in the input of the extraction
InputPosition(prop_name) ==
  CHOOSE k \in 1..Len(utility_colors) : utility_colors[k] = prop_name

\* the rank the ordering goes by: the first number in the label, 500 without one
FirstNumberOr500(shade) ==
  IF \E k \in 1..Len(shade) : shade[k] \in DigitRuns
  THEN IntOf(shade[CHOOSE k \in 1..Len(shade) :
                     /\ shade[k] \in DigitRuns
                     /\ \A j \in 1..(k - 1) : shade[j] \notin DigitRuns])
  ELSE 500

\* C14: after extract_color_families every family lists its shades by ascending first
\* number of the label, a label without digits counting as 500, and shades of equal
\* rank stand in the order of the input.
C14_ShadesAscendingStable ==
  pc = "extracted" =>
    \A f \in 1..Len(families_out) :
      \A i, j \in 1..Len(families_out[f].shades) :
        i < j =>
          \A a \in {FirstNumberOr500(families_out[f].shades[i].shade)},
             b \in {FirstNumberOr500(families_out[f].shades[j].shade)} :
            /\ a <= b
            /\ a = b => InputPosition(families_out[f].shades[i].property)
                          < InputPosition(families_out[f].shades[j].property)

\* a family was extracted whose label without digits stands between a smaller and a
\* larger number, from an input that listed them in another order
C14_Witness ==
  /\ pc = "extracted"
  /\ \E f \in 1..Len(families_out) :
       /\ Len(families_out[f].shades) = 3
       /\ FirstNumberOr500(families_out[f].shades[1].shade) < 500
       /\ FindDigitRuns(families_out[f].shades[2].shade) = <<>>
       /\ FirstNumberOr500(families_out[f].shades[3].shade) > 500
       /\ InputPosition(families_out[f].shades[3].property)
            < InputPosition(families_out[f].shades[1].property)

\* ------------------------------------------------------------------------
\* The search command
\* ------------------------------------------------------------------------

\* enhanced_search returned its success dict
SearchSucceeded ==
  /\ pc = "returned"
  /\ ~search_result.raised
  /\ search_result.value.status = "success"

\* the assets listed under a product in a dict of products
ItemsOf(results, product) ==
  IF KeyIndex(results, product) = 0 THEN <<>> ELSE results[KeyIndex(results, product)].items

\* the members of a list
Members(s) == {s[k] : k \in 1..Len(s)}

\* C18: when enhanced_search is given the asset type filter 'logo' or 'document', every
\* asset of the returned result is of that type, whatever the query.
C18_ResultHonoursTypeFilter ==
  (SearchSucceeded /\ search_call.asset_type_filter # None) =>
    \A k \in 1..Len(search_result.value.assets) :
      \A a \in Members(search_result.value.assets[k].items) :
        AssetAssetType(a) = search_call.asset_type_filter

\* the assets the search matched for the last call, by product: those of the product
\* or keyword search, and the company logos where the query includes them
MatchedAssets ==
  LET query_lower == QueryLower(search_call.query)
      resolved == ResolveProductFromQuery(search_call.query, search_call.patterns)
      found == IF resolved # NotResolved
               THEN SpecificSearch(resolved, search_call.asset_data.assets,
                                   search_call.asset_type_filter)
               ELSE GeneralSearch(query_lower, search_call.asset_data.assets,
                                  search_call.asset_type_filter)
  IN IF ShouldIncludeCiq(query_lower, resolved, search_call.patterns)
     THEN DictSet(found, <<"ciq">>, ItemsOf(found, <<"ciq">>) \o CiqLogos)
     ELSE found

\* the documents, and the logos, of a list of assets
DocumentsIn(items) == SelectSeq(items, LAMBDA a : a.type = "document")
LogosIn(items) == SelectSeq(items, LAMBDA a : a.type # "document")

\* C19: without show_all_variants each product of the result keeps all its matched
\* documents and exactly one logo, a horizontal one if a matched logo is horizontal and
\* the first matched logo otherwise, and a product left with no asset is dropped; with
\* show_all_variants no matched asset is dropped.
C19_PrimaryVariantsOnlyUnlessAll ==
  SearchSucceeded =>
    \A matched \in {MatchedAssets}, result \in {search_result.value.assets} :
      IF search_call.show_all_variants
      THEN \A k \in 1..Len(matched) :
             Members(matched[k].items) \subseteq Members(ItemsOf(result, matched[k].product))
      ELSE /\ \A k \in 1..Len(result) : result[k].items # <<>>
           /\ \A k \in 1..Len(matched) :
                \A kept \in {ItemsOf(result, matched[k].product)},
                   logos \in {LogosIn(matched[k].items)} :
                  /\ DocumentsIn(kept) = DocumentsIn(matched[k].items)
                  /\ Len(LogosIn(kept)) = IF logos = <<>> THEN 0 ELSE 1
                  /\ logos # <<>> =>
                       /\ LogosIn(kept)[1] \in Members(logos)
                       /\ IF \E j \in 1..Len(logos) : logos[j].layout = "horizontal"
                          THEN LogosIn(kept)[1].layout = "horizontal"
                          ELSE LogosIn(kept)[1] = logos[1]

\* the command line is a usage error: the parser rejects it and it is not the single
\* argument that main takes as the query
IsUsageError == ~ParseArgs(argv).ok /\ Len(argv) # 1

\* C17: every run of the command writes exactly one JSON object line to standard output
\* and nothing else there, and exits non-zero exactly on a usage error or when the asset
\* metadata cannot be loaded.
C17_OneJsonLineAndExitCode ==
  pc = "exited" =>
    /\ Len(stdout) = 1
    /\ stdout[1].kind = "json"
    /\ (exit_code # 0) <=> (IsUsageError \/ Falsy(metadata_file))

\* ------------------------------------------------------------------------
\* Alias lookups of the parser
\* ------------------------------------------------------------------------

\* the first declared entry of a table that has a pattern occurring in the text
FirstDeclaredMatching(text, table) ==
  IF \E k \in 1..Len(table) : AnyIn(text, table[k].patterns)
  THEN table[CHOOSE k \in 1..Len(table) :
               /\ AnyIn(text, table[k].patterns)
               /\ \A j \in 1..(k - 1) : ~AnyIn(text, table[j].patterns)].name
  ELSE None

\* C21 (as claimed): the background and the layout extracted from a request are the
\* first declared values that have an alias in it, also when aliases of several
\* values occur.
C21_FirstDeclaredBackgroundAndLayout ==
  Parsed =>
    \A text \in {RequestText} :
      /\ parsed.background = FirstDeclaredMatching(text, background_patterns)
      /\ parsed.layout = FirstDeclaredMatching(text, layout_patterns)

\* C26 (as claimed): color_type and usage_context are, each on its own, the first
\* declared category that has a pattern in the request.
C26_FirstDeclaredColorContext ==
  Parsed =>
    \A text \in {RequestText} :
      /\ parsed.color_context.color_type = FirstDeclaredMatching(text, color_patterns)
      /\ parsed.color_context.usage_context
           = FirstDeclaredMatching(text, color_usage_patterns)

\* C22 (as claimed): a request whose primary intent is neither documents nor
\* sales-materials and whose matched aliases all belong to rlc resolves to rlc.
C22_OtherPrimaryIntentKeepsRlc ==
  (Parsed /\ parsed.primary_intent \notin {"documents", "sales_materials"}) =>
    \A matches \in {RequestMatches} :
      (matches # <<>> /\ ProductsOf(matches) = {"rlc"}) => parsed.product = "rlc"

\* C22: a request in which neither the documents nor the sales-materials category
\* scores resolves to the owner of the first alias in the sorted matches, so to rlc
\* when all matched aliases belong to rlc; the LTS preference needs such a score.
C22_NoDocumentScoreKeepsRlc ==
  (Parsed /\ ~IsDocumentQuery(parsed.intent_scores)) =>
    \A matches \in {RequestMatches} :
      /\ matches # <<>> => parsed.product = SortMatches(matches)[1].prod
      /\ (matches # <<>> /\ ProductsOf(matches) = {"rlc"}) => parsed.product = "rlc"

\* C22 witness: the short code 'rlc' in a request with a scoring intent that is not
\* a document intent
C22_Witness ==
  /\ Parsed
  /\ ~IsDocumentQuery(parsed.intent_scores)
  /\ parsed.primary_intent = "visual_assets"
  /\ OnlyAliasIsRlc(RequestMatches)
  /\ parsed.product = "rlc"

\* ------------------------------------------------------------------------
\* The logo decision path
\* ------------------------------------------------------------------------

\* the request was answered by _format_legacy_enhanced_response: a product was
\* resolved, it has matches, and no earlier branch of _format_response applies
OnLogoPath ==
  /\ Parsed
  /\ parsed.product # None
  /\ parsed.primary_intent
       \notin ColorIntents \cup {"all_assets", "documents", "sales_materials"}
  /\ ~parsed.needs_ciq_disambiguation
  /\ "assets" \in asset_data.keys
  /\ MatchAssets(asset_data, parsed.product, parsed) # <<>>

\* the product-only clarifying question applies
ClarifyingApplies ==
  /\ GetConfidenceLevel(parsed.confidence) \in {"low", "medium"}
  /\ parsed.background = None
  /\ parsed.layout = None

\* one of the exact or perfect match shapes applies
ExactShapeApplies(matches) ==
  /\ GetConfidenceLevel(parsed.confidence) = "high"
  /\ SelectMatches(matches, ScoreUnit) # <<>>

\* every asset of the resolved product is a logo with layout, background and color
OnlyLogos ==
  \A k \in 1..Len(ProductAssets(asset_data, parsed.product)) :
     HasLogoFields(ProductAssets(asset_data, parsed.product)[k])

\* C23 (as claimed): on the logo path, when neither the clarifying question nor an
\* exact or perfect shape applies, a medium band or at most 4 matches gives the
\* list of at most 3 assets with a suggestion, and every other case the guided
\* response.
C23_MediumOrFewMatchesListElseGuided ==
  (OnLogoPath /\ OnlyLogos /\ ~ClarifyingApplies) =>
    \A matches \in {MatchAssets(asset_data, parsed.product, parsed)} :
      ~ExactShapeApplies(matches) =>
        IF GetConfidenceLevel(parsed.confidence) = "medium" \/ Len(matches) <= 4
        THEN /\ response.shape = "options_list"
             /\ response.count <= 3
             /\ "suggestion" \in response.keys
        ELSE response.shape = "guided"

\* ------------------------------------------------------------------------
\* Asset scores
\* ------------------------------------------------------------------------

\* a logo's score by background and layout: 0.3, plus 0.4 and plus 0.3 for a match
BackgroundLayoutScore(asset, p) ==
  300 + (IF p.background # None /\ asset.background = p.background THEN 400 ELSE 0)
      + (IF p.layout # None /\ asset.layout = p.layout THEN 300 ELSE 0)

\* the request resolved a product under primary intent visual_assets
VisualRequest ==
  /\ Parsed
  /\ parsed.primary_intent = "visual_assets"
  /\ parsed.product # None
  /\ "assets" \in asset_data.keys

\* the matches of a request that carry a given asset
MatchesOf(matches, asset) == SelectSeq(matches, LAMBDA m : m.asset = asset)

\* C24 (as claimed): under primary intent visual_assets the base score of a logo is
\* 0.3 plus 0.4 on a background match plus 0.3 on a layout match, and the base
\* score of a document is the legacy scorer's flat 0.6.
C24_VisualBaseScoreIsLegacyScore ==
  VisualRequest =>
    \A items \in {ProductAssets(asset_data, parsed.product)} :
    \A k \in 1..Len(items) :
      BaseScore(items[k], parsed)
        = IF items[k].type = "document" THEN 600
          ELSE BackgroundLayoutScore(items[k], parsed)

\* C24: under primary intent visual_assets the base score of a logo is 0.3 plus
\* 0.4 on a background match plus 0.3 on a layout match, the base score of a
\* document is 0.1, and without the cross-intent boost the ranked matches carry
\* exactly these scores.
C24_VisualBaseScoreByType ==
  VisualRequest =>
    \A items \in {ProductAssets(asset_data, parsed.product)} :
    \A matches \in {MatchAssets(asset_data, parsed.product, parsed)} :
    \A k \in 1..Len(items) :
      \A expected \in {IF items[k].type = "document" THEN 100
                       ELSE BackgroundLayoutScore(items[k], parsed)} :
        /\ BaseScore(items[k], parsed) = expected
        /\ HighIntentCount(parsed.intent_scores) <= 1 =>
             /\ Len(MatchesOf(matches, items[k])) = 1
             /\ MatchesOf(matches, items[k])[1].score = expected

\* C24 witness: a visual request for a product with a document and with a logo
\* that matches the requested background and layout
C24_Witness ==
  /\ VisualRequest
  /\ parsed.background # None
  /\ parsed.layout # None
  /\ \E items \in {ProductAssets(asset_data, parsed.product)} :
       /\ \E k \in 1..Len(items) :
            items[k].type = "document" /\ BaseScore(items[k], parsed) = 100
       /\ \E k \in 1..Len(items) :
            items[k].type # "document" /\ BaseScore(items[k], parsed) = 1000
       /\ \E k \in 1..Len(items) :
            items[k].type # "document" /\ BaseScore(items[k], parsed) \in {300, 600, 700}

C28_ProductRequestsNeverRaise ==
  (Parsed /\ parsed.product # None /\ "assets" \in asset_data.keys
     /\ ProductAssets(asset_data, parsed.product) # <<>>) =>
    /\ ~propagated
    /\ response.shape # "exception"

\* ------------------------------------------------------------------------
\* Fetches of the tool get_brand_assets
\* ------------------------------------------------------------------------

\* the step is one call of get_brand_assets
ToolCallStep == pc = "idle" /\ pc' = "replied"

\* C25: a call of get_brand_assets attempts at most one metadata fetch, and one
\* exactly when no snapshot is held; the attempt failed exactly when the call
\* returns the 'Unable to load asset data' error; once a snapshot with the
\* required keys is held no step fetches or replaces it; and a call whose
\* metadata is loaded answers a non-color request as it would with the palette
\* loaded, whatever the palette load did.
C25_FetchOnlyWithoutSnapshot ==
  [][/\ ToolCallStep =>
          /\ fetches' \in {0, 1}
          /\ (fetches' = 1) = (asset_data.keys = {})
          /\ (response'.shape = "unable_to_load")
               = (fetches' = 1 /\ ~(RequiredKeys \subseteq asset_data'.keys))
          /\ response'.shape = "unable_to_load" =>
               /\ response'.error = "Unable to load asset data"
               /\ parsed' = NotParsed
          /\ (parsed' # NotParsed /\ parsed'.primary_intent \notin ColorIntents) =>
               response' = GuardedCall(FindAssets(asset_data', FullPalette, request')).value
     /\ RequiredKeys \subseteq asset_data.keys =>
          /\ asset_data' = asset_data
          /\ fetches' = 0]_vars

\* C25 witness: a call fetched the metadata, the palette did not load, and the
\* non-color request was answered from the snapshot
C25_Witness ==
  /\ pc = "replied"
  /\ fetches = 1
  /\ RequiredKeys \subseteq asset_data.keys
  /\ ~(RequiredPaletteKeys \subseteq color_data.keys)
  /\ parsed # NotParsed
  /\ parsed.primary_intent \notin ColorIntents
  /\ response.shape \in {"global", "comprehensive", "product_help"}

\* ------------------------------------------------------------------------
\* Results of enhanced_search
\* ------------------------------------------------------------------------

\* C29 (as claimed): in every result of enhanced_search total_found is the number
\* of assets in the returned map, with and without show_all_variants and with the
\* company logos added, and confidence is 'medium' exactly when total_found > 0.
C29_TotalFoundCountsReturnedAssets ==
  SearchSucceeded =>
    /\ search_result.value.total_found = CountAssets(search_result.value.assets)
    /\ (search_result.value.confidence = "medium") = (search_result.value.total_found > 0)
    /\ search_result.value.confidence \in {"medium", "none"}

\* C30 (as claimed): when the patterns file could not be loaded and the asset data
\* has its 'assets' key, enhanced_search returns a success result and does not
\* raise.
C30_SearchCompletesWithoutPatterns ==
  (pc = "returned" /\ search_call.patterns = NoData
     /\ "assets" \in search_call.asset_data.keys) =>
    /\ ~search_result.raised
    /\ search_result.value.status = "success"
====
